---- MODULE Spec2Model ----
(***************************************************************************)
(* Command-language front end of ConsoleRouletteSimulator (ArgCLITool):    *)
(* the Raw Stream, the Stream Hook (CLIInputStreamHook), the lexer         *)
(* (CLILexer) and the recursive-descent parser (CLIParser).                *)
(*                                                                         *)
(* Characters are one-character strings, texts are sequences of them.      *)
(* A C++ double is represented in millionths (fixed point, six decimals),  *)
(* which is exactly what survives std::to_string(float) followed by        *)
(* std::stod for the short literals used here; an int64 is an integer.     *)
(* A call of the parser is one action; the hook, the lexer and the parser  *)
(* functions are operators over a record holding every field of the three  *)
(* objects, threaded through the calls in the order the code makes them.   *)
(***************************************************************************)
EXTENDS Integers, Sequences, FiniteSets, TLC

VARIABLES
    pieces,                 \* ghost: the lexemes the input text was typed as
    input,                  \* the characters the Raw Stream delivers
    raw_pos,                \* read position of the wrapped Raw Stream
    failbit,                \* std::istream failbit of the wrapped Raw Stream
    stream_position_,       \* CLIInputStreamHook::stream_position_
    consumed_chars_,        \* CLIInputStreamHook::consumed_chars_
    position_,              \* CLIInputStreamHook::position_ (checkpoint)
    line_number_,           \* CLIInputStreamHook::line_number_ (checkpoint line)
    current_line_number_,   \* CLIInputStreamHook::current_line_number_
    peeked_token_,          \* CLILexer::peeked_token_ (<<>> or <<token>>)
    color_output_,          \* ErrorReporter::color_output_
    show_source_,           \* ErrorReporter::show_source_
    op,                     \* the call the driver made last
    ret,                    \* outcome of the last parseCommand call
    more,                   \* <<answer>> of hasMoreCommands since the last parse call
    pre,                    \* ghost: where the last parseCommand call started
    commands,               \* ghost: the Commands the driver has received
    token_log,              \* ghost: the tokens nextToken() has returned to the driver
    gets,                   \* ghost: the calls of get() on the hook that returned true
    ungets,                 \* ghost: the calls of unget() on the hook that did not throw
    slot_at_reset,          \* ghost: the types of the tokens clearConsumedTokens() found cached
    framebuffer_draw,       \* main: the back buffer ("A" or "B")
    framebuffer_render,     \* main: the front buffer
    framebuffer,            \* Renderer::framebuffer ("null" until the first setBuffer)
    draw_target,            \* the frame buffer the rasterizer draws into
    buffer_mutex,           \* Renderer::buffer_mutex: "free" or the thread holding it
    running,                \* main: std::atomic<bool> running
    total_steps,            \* RotationManager::total_steps
    current_step,           \* RotationManager::current_step
    logic_pc,               \* where the logic thread (main) stands
    render_pc,              \* where the render thread stands
    remaining_angle,        \* RotationManager::remaining_angle (a float)
    show_metrics,           \* config.show_metrics
    logic_rate,             \* logic_timer.actual_rate: the number of the measurement it holds
    printed_tps,            \* the TPS figures the render thread has printed
    rows_,                  \* PixelMatrix::rows_
    cols_,                  \* PixelMatrix::cols_
    matrix_,                \* PixelMatrix::matrix_: the mode of the cell of each pixel
    display_char_,          \* PixelMatrix::display_char_: the glyph of each pair of rows
    pixels_on,              \* ghost: the pixels whose last call was enable
    arg_parser,             \* the ArgParser with its declared arguments
    argv,                   \* argv[1..argc-1] as main received it
    scan_i,                 \* ArgParser::parse: the index i of the scan loop
    positional_count,       \* ArgParser::parse: positional_count
    parsed_args,            \* ArgParser::parse: the Args object `args`
    parse_pc,               \* where ArgParser::parse stands
    thrown,                 \* what() of the exception parse threw ("" if none)
    uses                    \* ghost: how each element of argv was consumed

vars == <<pieces, input, raw_pos, failbit, stream_position_, consumed_chars_, position_,
          line_number_, current_line_number_, peeked_token_, color_output_,
          show_source_, op, ret, more, pre, commands, token_log, gets, ungets,
          slot_at_reset, framebuffer_draw, framebuffer_render, framebuffer, draw_target,
          buffer_mutex, running, total_steps, current_step, logic_pc, render_pc,
          remaining_angle, show_metrics, logic_rate, printed_tps,
          rows_, cols_, matrix_, display_char_, pixels_on, arg_parser, argv, scan_i,
          positional_count, parsed_args, parse_pc, thrown, uses>>

\* the variables of the PixelMatrix the frames are drawn on
pixelVars == <<rows_, cols_, matrix_, display_char_, pixels_on>>

\* the variables of the library objects main uses beside the front end
\* the variables of ArgParser::parse
argVars == <<arg_parser, argv, scan_i, positional_count, parsed_args, parse_pc, thrown, uses>>

libVars == <<pixelVars, argVars>>

\* the variables of roulette.cpp's main and its two threads
mainVars == <<framebuffer_draw, framebuffer_render, framebuffer, draw_target,
              buffer_mutex, running, total_steps, current_step, logic_pc, render_pc,
              remaining_angle, show_metrics, logic_rate, printed_tps>>

\* the variables of the metrics line the render thread prints
metricVars == <<show_metrics, logic_rate, printed_tps>>

\* the variables of the command-language front end
parserVars == <<pieces, input, raw_pos, failbit, stream_position_, consumed_chars_,
                position_, line_number_, current_line_number_, peeked_token_,
                color_output_, show_source_, op, ret, more, pre, commands, token_log,
                gets, ungets, slot_at_reset>>

(***************************************************************************)
(* Bounds of the model.                                                    *)
(***************************************************************************)
MaxPieces == 3      \* lexemes of an arbitrary input
MaxArgs == 3        \* arguments of a one-line statement
MaxBlock == 5       \* lexemes after the name in an input of names, braces, line breaks
MaxElems == 3       \* numbers of a number list
MaxLines == 4       \* lines of an input made of whole lines
MaxText == 3       \* characters of a text read through the hook alone
MaxGets == 4       \* successful get() calls on the hook alone
MaxTokens == 4     \* nextToken() calls of a driver of the lexer alone
MaxBody == 5       \* characters after the opening quote of a string literal
MaxNumber == 4     \* characters of a number candidate
MaxSteps == 3      \* --steps of the animation
MaxList == 4       \* lexemes after the opener of a number list
MaxSpan == 4       \* largest offset of a token span handed to the reporter
MaxBefore == 2     \* whole lines before a last statement that has no line break

(***************************************************************************)
(* Characters.                                                             *)
(***************************************************************************)
EOFc == "EOF"   \* what peek() yields at end of input: char(traits::eof())

UpperAlpha == {"A","B","C","D","E","F","G","H","I","J","K","L","M",
               "N","O","P","Q","R","S","T","U","V","W","X","Y","Z"}
LowerAlpha == {"a","b","c","d","e","f","g","h","i","j","k","l","m",
               "n","o","p","q","r","s","t","u","v","w","x","y","z"}

isDigit(c) == c \in {"0","1","2","3","4","5","6","7","8","9"}
isAlpha(c) == c \in LowerAlpha \cup UpperAlpha

DigitChars == <<"0","1","2","3","4","5","6","7","8","9">>
DigitVal(c) == (CHOOSE i \in 1..10 : DigitChars[i] = c) - 1

(***************************************************************************)
(* The state of the three objects as one record.                           *)
(***************************************************************************)
Pack(in, rp, sp, cc, p, ln, cl, pk) ==
    [input |-> in, raw_pos |-> rp, stream_position_ |-> sp, consumed_chars_ |-> cc,
     position_ |-> p, line_number_ |-> ln, current_line_number_ |-> cl,
     peeked_token_ |-> pk, fatal |-> FALSE, diverged |-> FALSE,
     failbit |-> FALSE, gets |-> 0, ungets |-> 0, slot_at_reset |-> {}]

Fresh(in) == Pack(in, 0, 0, <<>>, 0, 1, 1, <<>>)

Cur == [Pack(input, raw_pos, stream_position_, consumed_chars_, position_,
             line_number_, current_line_number_, peeked_token_)
       EXCEPT !.failbit = failbit, !.gets = gets, !.ungets = ungets,
              !.slot_at_reset = slot_at_reset]

(***************************************************************************)
(* Raw Stream: CLIStdInputStream over a finite text.                       *)
(***************************************************************************)
\* A get at the end of the text fails and sets failbit, which nothing here
\* clears: from then on every get fails and unget does nothing.  (peek at the
\* end sets eofbit only, which unget clears again.)
StreamPeek(s) ==
    IF ~s.failbit /\ s.raw_pos < Len(s.input) THEN s.input[s.raw_pos + 1] ELSE EOFc

StreamGet(s) ==
    IF ~s.failbit /\ s.raw_pos < Len(s.input)
    THEN [ok |-> TRUE, c |-> s.input[s.raw_pos + 1],
          st |-> [s EXCEPT !.raw_pos = s.raw_pos + 1]]
    ELSE [ok |-> FALSE, c |-> EOFc, st |-> [s EXCEPT !.failbit = TRUE]]

StreamUnget(s) ==
    IF s.failbit THEN s
    ELSE [s EXCEPT !.raw_pos = IF s.raw_pos > 0 THEN s.raw_pos - 1 ELSE 0]

(***************************************************************************)
(* Stream Hook.  Where a function uses the result of a call more than      *)
(* once, the rest of its body is an operator that takes the result as a    *)
(* parameter (g: a get, p: a peekToken, n: a nextToken, l: a list parse).  *)
(***************************************************************************)
HookPeek(s) == StreamPeek(s)

\* mutant: a consumed line break does not advance the line counter
HookGetDone_lineNotCounted(s, g) ==
    IF g.ok
    THEN [ok |-> TRUE, c |-> g.c,
          st |-> [g.st EXCEPT
                    !.stream_position_ = s.stream_position_ + 1,
                    !.gets = s.gets + 1,
                    !.consumed_chars_ = Append(s.consumed_chars_, g.c)]]
    ELSE [ok |-> FALSE, c |-> EOFc, st |-> g.st]

\* the body of get() once stream_.get(c) has answered g
HookGetDone(s, g) ==
    IF g.ok
    THEN [ok |-> TRUE, c |-> g.c,
          st |-> [g.st EXCEPT
                    !.stream_position_ = s.stream_position_ + 1,
                    !.gets = s.gets + 1,
                    !.consumed_chars_ = Append(s.consumed_chars_, g.c),
                    !.current_line_number_ =
                        IF g.c = "\n" THEN s.current_line_number_ + 1
                                      ELSE s.current_line_number_]]
    ELSE [ok |-> FALSE, c |-> EOFc, st |-> g.st]

HookGet(s) == HookGetDone(s, StreamGet(s))

\* mutant: no test of the buffer, the unget always goes to the Raw Stream
HookUnget_unchecked(s) ==
    [StreamUnget(s) EXCEPT
        !.stream_position_ = s.stream_position_ - 1,
        !.ungets = s.ungets + 1,
        !.consumed_chars_ = IF s.consumed_chars_ = <<>> THEN <<>>
                            ELSE SubSeq(s.consumed_chars_, 1, Len(s.consumed_chars_) - 1)]

\* unget on an empty buffer throws std::runtime_error("Cannot unget"): the
\* record keeps its fields and carries the fatal mark.
HookUnget(s) ==
    IF s.consumed_chars_ = <<>>
    THEN [s EXCEPT !.fatal = TRUE]
    ELSE [StreamUnget(s) EXCEPT
            !.stream_position_ = s.stream_position_ - 1,
            !.ungets = s.ungets + 1,
            !.current_line_number_ =
                IF s.consumed_chars_[Len(s.consumed_chars_)] = "\n"
                THEN s.current_line_number_ - 1
                ELSE s.current_line_number_,
            !.consumed_chars_ = SubSeq(s.consumed_chars_, 1, Len(s.consumed_chars_) - 1)]

tellg(s) == s.stream_position_

\* mutant: the buffer is emptied and the checkpoint stays where it was
clearConsumedTokens_keepsCheckpoint(s) == [s EXCEPT !.consumed_chars_ = <<>>]

clearConsumedTokens(s) ==
    [s EXCEPT !.position_ = s.stream_position_,
              !.line_number_ = s.current_line_number_,
              !.consumed_chars_ = <<>>,
              !.slot_at_reset =
                  s.slot_at_reset \cup {s.peeked_token_[i].type :
                                           i \in 1..Len(s.peeked_token_)}]

(***************************************************************************)
(* Number texts: std::to_string, std::stoll, std::stod and the two         *)
(* istringstream extractions of readNumber.                                *)
(***************************************************************************)
RECURSIVE NatText(_)
NatText(n) == IF n < 10 THEN <<DigitChars[n + 1]>>
              ELSE Append(NatText(n \div 10), DigitChars[(n % 10) + 1])

\* std::to_string(int64_t)
ToStringInt(n) == IF n < 0 THEN <<"-">> \o NatText(-n) ELSE NatText(n)

RECURSIVE PadLeft(_, _)
PadLeft(t, n) == IF Len(t) >= n THEN t ELSE PadLeft(<<"0">> \o t, n)

\* std::to_string(float): "%f", six decimals; m is the value in millionths
ToStringFloat(m) ==
    IF m < 0
    THEN <<"-">> \o NatText((-m) \div 1000000) \o <<".">> \o PadLeft(NatText((-m) % 1000000), 6)
    ELSE NatText(m \div 1000000) \o <<".">> \o PadLeft(NatText(m % 1000000), 6)

AllDigits(t) == \A i \in 1..Len(t) : isDigit(t[i])

RECURSIVE DigitsVal(_)
DigitsVal(t) == IF t = <<>> THEN 0
                ELSE DigitsVal(SubSeq(t, 1, Len(t) - 1)) * 10 + DigitVal(t[Len(t)])

HasSign(t) == t /= <<>> /\ t[1] \in {"-", "+"}
Unsigned(t) == IF HasSign(t) THEN Tail(t) ELSE t
Signed(t, v) == IF t /= <<>> /\ t[1] = "-" THEN -v ELSE v

\* the digits b of the text t, as an integer
IntegerOfDigits(t, b) ==
    IF b /= <<>> /\ AllDigits(b)
    THEN [ok |-> TRUE, v |-> Signed(t, DigitsVal(b))]
    ELSE [ok |-> FALSE, v |-> 0]

\* `iss >> integer; iss.eof() && !iss.fail()`: an optional sign and at least
\* one digit up to the end of the text (the texts of the model are far too
\* short to overflow int64)
ExtractInteger(t) == IntegerOfDigits(t, Unsigned(t))

DotAt(b) == IF \E i \in 1..Len(b) : b[i] = "."
            THEN CHOOSE i \in 1..Len(b) : b[i] = "." /\ \A j \in 1..(i - 1) : b[j] /= "."
            ELSE Len(b) + 1

\* the first six decimals of a digit text, as millionths (texts of the model
\* have at most six decimals, so nothing is rounded away)
FracMicro(f) ==
    DigitsVal(SubSeq(f, 1, IF Len(f) < 6 THEN Len(f) ELSE 6)
              \o [i \in 1..(6 - (IF Len(f) < 6 THEN Len(f) ELSE 6)) |-> "0"])

\* integer part ip and fraction part fp of the text t, as millionths
FloatOfParts(t, ip, fp) ==
    IF AllDigits(ip) /\ AllDigits(fp) /\ (ip /= <<>> \/ fp /= <<>>)
    THEN [ok |-> TRUE, v |-> Signed(t, DigitsVal(ip) * 1000000 + FracMicro(fp))]
    ELSE [ok |-> FALSE, v |-> 0]

\* the unsigned text b of t, split at the point at index d
FloatOfText(t, b, d) == FloatOfParts(t, SubSeq(b, 1, d - 1), SubSeq(b, d + 1, Len(b)))

\* `iss >> floating; iss.eof() && !iss.fail()`: sign, digits, at most one
\* point, at least one digit (an exponent needs e or E, which the texts of
\* the model do not contain); the value in millionths
ExtractFloat(t) == FloatOfText(t, Unsigned(t), DotAt(Unsigned(t)))

\* std::stoll on the canonical text of an Integer token
stoll(t) == ExtractInteger(t).v
\* std::stod on the canonical text of a Float token, in millionths
stod(t) == ExtractFloat(t).v
\* static_cast<double>(int64_t), in millionths
ToDouble(n) == n * 1000000
\* static_cast<int64_t>(double): truncation toward zero
ToInt64(m) == IF m < 0 THEN -((-m) \div 1000000) ELSE m \div 1000000

(***************************************************************************)
(* Lexer.                                                                  *)
(***************************************************************************)
CLIToken(type, value, begin, end) ==
    [type |-> type, value |-> value, begin |-> begin, end |-> end]

\* mutant: the span counts the character the read loop stopped at
TokenRead_endPastLexeme(type, r, begin) ==
    [st |-> r.st, tok |-> CLIToken(type, r.value, begin, r.end + 1)]

\* `return CLIToken{type, value, begin, end}` after a read loop that gave r
TokenRead(type, r, begin) ==
    [st |-> r.st, tok |-> CLIToken(type, r.value, begin, r.end)]

RECURSIVE readIdentifierLoop(_, _, _)
readIdentifierLoop(s, value, end) ==
    IF isAlpha(HookPeek(s)) \/ isDigit(HookPeek(s)) \/ HookPeek(s) = "_"
    THEN readIdentifierLoop(HookGet(s).st, Append(value, HookPeek(s)), end + 1)
    ELSE [st |-> s, value |-> value, end |-> end]

readIdentifier(s) ==
    TokenRead("Identifier", readIdentifierLoop(s, <<>>, tellg(s)), tellg(s))

RECURSIVE readStringLoop(_, _, _, _)

\* mutant: an escaped line break is kept in the value
readStringChar_keepsBreak(s, g, value, end, escape) ==
    IF ~g.ok THEN [st |-> s, value |-> value, end |-> end]
    ELSE IF escape
         THEN IF g.c = "\r" THEN readStringLoop(g.st, value, end + 1, TRUE)
              ELSE readStringLoop(g.st, Append(value, g.c), end + 1, FALSE)
         ELSE IF g.c = "\\" THEN readStringLoop(g.st, value, end + 1, TRUE)
         ELSE IF g.c = "\"" THEN [st |-> g.st, value |-> value, end |-> end + 1]
         ELSE readStringLoop(g.st, Append(value, g.c), end + 1, FALSE)

\* one turn of `while (stream_.get(c))`, the get having answered g
readStringChar(s, g, value, end, escape) ==
    IF ~g.ok THEN [st |-> s, value |-> value, end |-> end]
    ELSE IF escape
         THEN IF g.c = "\r" THEN readStringLoop(g.st, value, end + 1, TRUE)
              ELSE IF g.c = "\n" THEN readStringLoop(g.st, value, end + 1, FALSE)
              ELSE readStringLoop(g.st, Append(value, g.c), end + 1, FALSE)
         ELSE IF g.c = "\\" THEN readStringLoop(g.st, value, end + 1, TRUE)
         ELSE IF g.c = "\"" THEN [st |-> g.st, value |-> value, end |-> end + 1]
         ELSE readStringLoop(g.st, Append(value, g.c), end + 1, FALSE)

readStringLoop(s, value, end, escape) == readStringChar(s, HookGet(s), value, end, escape)

readString(s) ==
    TokenRead("String", readStringLoop(s, <<>>, tellg(s), FALSE), tellg(s) - 1)

isNumberChar(c) ==
    isDigit(c) \/ isAlpha(c) \/ c = "_" \/ c = "." \/ c = "-" \/ c = "+"

RECURSIVE readNumberLoop(_, _, _)
readNumberLoop(s, value, end) ==
    IF isNumberChar(HookPeek(s))
    THEN readNumberLoop(HookGet(s).st, Append(value, HookPeek(s)), end + 1)
    ELSE [st |-> s, value |-> value, end |-> end]

\* mutant: an integer with the f|F suffix is an Integer token
classifyChecked_suffixIgnored(value, has_suffix, i, f, begin, end) ==
    IF i.ok THEN CLIToken("Integer", ToStringInt(i.v), begin, end)
    ELSE IF f.ok THEN CLIToken("Float", ToStringFloat(f.v), begin, end)
    ELSE CLIToken("Unknown", value, begin, end)

\* the integer check i and the float check f of readNumber decide the token
classifyChecked(value, has_suffix, i, f, begin, end) ==
    IF i.ok
    THEN IF has_suffix THEN CLIToken("Unknown", value, begin, end)
         ELSE CLIToken("Integer", ToStringInt(i.v), begin, end)
    ELSE IF f.ok THEN CLIToken("Float", ToStringFloat(f.v), begin, end)
    ELSE CLIToken("Unknown", value, begin, end)

\* body: the text without its f|F suffix
classifyBody(value, has_suffix, body, begin, end) ==
    classifyChecked(value, has_suffix, ExtractInteger(body), ExtractFloat(body), begin, end)

classifyNumber(value, begin, end) ==
    IF Len(value) > 0 /\ value[Len(value)] \in {"f", "F"}
    THEN classifyBody(value, TRUE, SubSeq(value, 1, Len(value) - 1), begin, end)
    ELSE classifyBody(value, FALSE, value, begin, end)

NumberRead(r, begin) == [st |-> r.st, tok |-> classifyNumber(r.value, begin, r.end)]

readNumber(s) == NumberRead(readNumberLoop(s, <<>>, tellg(s)), tellg(s))

RECURSIVE readCommentLoop(_, _, _)

\* `stream_.get(c); ++end; value += c`, the get having answered g.  At end
\* of input peek() is not '\n' and get() fails, so the loop of readComment
\* never ends: the record carries the diverged mark.
readCommentChar(s, g, value, end) ==
    IF g.ok THEN readCommentLoop(g.st, Append(value, g.c), end + 1)
    ELSE [st |-> [s EXCEPT !.diverged = TRUE], value |-> value, end |-> end]

readCommentLoop(s, value, end) ==
    IF HookPeek(s) = "\n" THEN [st |-> s, value |-> value, end |-> end]
    ELSE readCommentChar(s, HookGet(s), value, end)

readComment(s) == TokenRead("Comment", readCommentLoop(s, <<>>, tellg(s)), tellg(s))

Punctuation(c) ==
    CASE c = "(" -> "LeftParen"
      [] c = ")" -> "RightParen"
      [] c = "[" -> "LeftBracket"
      [] c = "]" -> "RightBracket"
      [] c = "{" -> "LeftCurly"
      [] c = "}" -> "RightCurly"
      [] c = "," -> "Comma"
      [] c = "\n" -> "EndOfLine"
      [] OTHER -> "Unknown"

RECURSIVE readNextToken(_)

\* `switch (c)` of readNextToken, the get having answered g with a character
readNextTokenChar(g) ==
    IF isAlpha(g.c) \/ g.c = "_" THEN readIdentifier(HookUnget(g.st))
    ELSE IF g.c = "\"" THEN readString(g.st)
    ELSE IF g.c \in {"-", "+", "."} \/ isDigit(g.c) THEN readNumber(HookUnget(g.st))
    ELSE IF g.c = "#" THEN readComment(HookUnget(g.st))
    ELSE IF g.c \in {" ", "\t", "\r"} THEN readNextToken(g.st)
    ELSE [st |-> g.st,
          tok |-> CLIToken(Punctuation(g.c), <<g.c>>, tellg(g.st) - 1, tellg(g.st))]

\* `while (stream_.get(c))`, the get having answered g
readNextTokenGot(s, g) ==
    IF ~g.ok
    THEN [st |-> s, tok |-> CLIToken("EndOfFile", <<>>, tellg(s), tellg(s))]
    ELSE readNextTokenChar(g)

readNextToken(s) == readNextTokenGot(s, HookGet(s))

hasMoreTokens(s) == HookPeek(s) /= EOFc

nextToken(s) ==
    IF s.peeked_token_ /= <<>>
    THEN [st |-> [s EXCEPT !.peeked_token_ = <<>>], tok |-> s.peeked_token_[1]]
    ELSE readNextToken(s)

\* mutant: the token read for a peek is returned and not kept
Peeked_notKept(r) == [st |-> r.st, tok |-> r.tok]

\* `peeked_token_ = readNextToken()`, the read having given r
Peeked(r) == [st |-> [r.st EXCEPT !.peeked_token_ = <<r.tok>>], tok |-> r.tok]

peekToken(s) ==
    IF s.peeked_token_ = <<>> THEN Peeked(readNextToken(s))
    ELSE [st |-> s, tok |-> s.peeked_token_[1]]

(***************************************************************************)
(* Parser: arguments, diagnostics and the results of the parse functions.  *)
(***************************************************************************)
Argument(type, index, text, nums) ==
    [type |-> type, index |-> index, text |-> text, nums |-> nums]

IdentifierArg(t)    == Argument("Identifier", "StringData", t, <<>>)
StringArg(t)        == Argument("String", "StringData", t, <<>>)
IntegerArg(n)       == Argument("Integer", "IntegerData", <<>>, <<n>>)
FloatArg(m)         == Argument("Float", "FloatData", <<>>, <<m>>)
IntegerVectorArg(v) == Argument("IntegerVector", "IntegerVectorData", <<>>, v)
FloatVectorArg(v)   == Argument("FloatVector", "FloatVectorData", <<>>, v)

Command(name, arguments) == [name |-> name, arguments |-> arguments]

NoError == [kind |-> "none", expected |-> "", token |-> CLIToken("EndOfFile", <<>>, 0, 0)]
unexpectedTokenError(expected, actual) ==
    [kind |-> "UnexpectedToken", expected |-> expected, token |-> actual]
noWayToReachHere ==
    [kind |-> "NoWayToReachHere", expected |-> "", token |-> CLIToken("EndOfFile", <<>>, 0, 0)]

Return(s, v) == [st |-> s, ok |-> TRUE, val |-> v, err |-> NoError]
Throw(s, e)  == [st |-> s, ok |-> FALSE, val |-> <<>>, err |-> e]

\* mutant: the offending token is only peeked and stays in the lookahead slot
ThrowToken_keepsToken(n, kind, expected) ==
    Throw([n.st EXCEPT !.peeked_token_ = <<n.tok>>],
          [kind |-> kind, expected |-> expected, token |-> n.tok])

\* `throw error_reporter_.<kind>(expected, token)`, n being the nextToken
\* call that discarded the token
ThrowToken(n, kind, expected) ==
    Throw(n.st, [kind |-> kind, expected |-> expected, token |-> n.tok])

\* `token = lexer_.nextToken(); throw error_reporter_.<kind>(expected, token)`
DiscardAndThrow(s, kind, expected) == ThrowToken(nextToken(s), kind, expected)

(***************************************************************************)
(* parseNumberList                                                         *)
(***************************************************************************)
TokenAsInt64(t) == IF t.type = "Integer" THEN stoll(t.value) ELSE ToInt64(stod(t.value))
TokenAsDouble(t) == IF t.type = "Integer" THEN ToDouble(stoll(t.value)) ELSE stod(t.value)

parseIntegerVector(tokens) ==
    IntegerVectorArg([i \in 1..Len(tokens) |-> TokenAsInt64(tokens[i])])
\* mutant: the float payload is stored and arg.type keeps the integer tag
parseFloatVector_tagNotSet(tokens) ==
    Argument("IntegerVector", "FloatVectorData", <<>>,
             [i \in 1..Len(tokens) |-> TokenAsDouble(tokens[i])])

parseFloatVector(tokens) ==
    FloatVectorArg([i \in 1..Len(tokens) |-> TokenAsDouble(tokens[i])])

NumberListResult(tokens, integer_vector) ==
    IF integer_vector THEN parseIntegerVector(tokens) ELSE parseFloatVector(tokens)

\* mutant: the juxtaposed number ends the list whatever its size
JuxtaposedNumber_endsList(p, n, tokens, integer_vector) ==
    Return(p.st, NumberListResult(tokens, integer_vector))

\* a number is peeked (p) while no comma separates it from the one before
JuxtaposedNumber(p, n, tokens, integer_vector) ==
    IF Len(tokens) = 1
    THEN ThrowToken(n, "UnexpectedToken", "Comma")
    ELSE Return(p.st, NumberListResult(tokens, integer_vector))

RECURSIVE parseNumberListLoop(_, _, _, _, _)

\* mutant: a comma is taken wherever it stands
SeenComma_anywhere(n, comma, first_number, tokens, integer_vector) ==
    parseNumberListLoop(n.st, TRUE, first_number, tokens, integer_vector)

\* `case CLIToken::Type::Comma:` n is the nextToken call that takes the comma
SeenComma(n, comma, first_number, tokens, integer_vector) ==
    IF comma THEN ThrowToken(n, "UnexpectedToken", "number")
    ELSE parseNumberListLoop(n.st, TRUE, first_number, tokens, integer_vector)

\* `switch (lexer_.peekToken().type)`: p is the peek, n the nextToken call
\* the case makes (if it makes one)
parseNumberListCase(p, n, comma, first_number, tokens, integer_vector) ==
    IF p.tok.type \in {"Integer", "Float"}
    THEN IF ~comma THEN JuxtaposedNumber(p, n, tokens, integer_vector)
         ELSE parseNumberListLoop(n.st, FALSE, FALSE, Append(tokens, n.tok),
                                  integer_vector /\ p.tok.type = "Integer")
    ELSE IF p.tok.type = "Comma"
    THEN SeenComma(n, comma, first_number, tokens, integer_vector)
    ELSE IF first_number THEN ThrowToken(n, "UnexpectedToken", "number")
    ELSE IF comma THEN ThrowToken(n, "UnexpectedToken", "number")
    ELSE Return(p.st, NumberListResult(tokens, integer_vector))

parseNumberListPeeked(p, comma, first_number, tokens, integer_vector) ==
    parseNumberListCase(p, nextToken(p.st), comma, first_number, tokens, integer_vector)

parseNumberListLoop(s, comma, first_number, tokens, integer_vector) ==
    parseNumberListPeeked(peekToken(s), comma, first_number, tokens, integer_vector)

parseNumberList(s) == parseNumberListLoop(s, TRUE, TRUE, <<>>, TRUE)

(***************************************************************************)
(* parseVector                                                             *)
(***************************************************************************)
\* mutant: either closing symbol closes either opener
parseDelimitedEnd_anyCloser(n, arg, closer) ==
    IF n.tok.type \notin {"RightParen", "RightBracket"}
    THEN Throw(n.st, unexpectedTokenError(closer, n.tok))
    ELSE Return(n.st, arg)

\* `token = lexer_.nextToken(); if (token.type != closer) throw ...; return arg`
parseDelimitedEnd(n, arg, closer) ==
    IF n.tok.type /= closer THEN Throw(n.st, unexpectedTokenError(closer, n.tok))
    ELSE Return(n.st, arg)

\* l is what `arg = parseNumberList()` gave
parseDelimitedList(l, closer) ==
    IF ~l.ok THEN l ELSE parseDelimitedEnd(nextToken(l.st), l.val, closer)

\* `lexer_.nextToken(); arg = parseNumberList(); ...`
parseDelimited(s, closer) == parseDelimitedList(parseNumberList(nextToken(s).st), closer)

parseVectorCase(p) ==
    IF p.tok.type \in {"Integer", "Float"} THEN parseNumberList(p.st)
    ELSE IF p.tok.type \in {"LeftParen", "LeftBracket"}
    THEN parseDelimited(p.st, IF p.tok.type = "LeftParen" THEN "RightParen"
                              ELSE "RightBracket")
    ELSE Throw(p.st, noWayToReachHere)

parseVector(s) == parseVectorCase(peekToken(s))

(***************************************************************************)
(* parseArgument                                                           *)
(***************************************************************************)
\* mutant: the leading number is appended instead of inserted in front
InsertFirstInteger_atEnd(first, rest) ==
    IF rest.type = "IntegerVector"
    THEN IntegerVectorArg(rest.nums \o <<stoll(first.value)>>)
    ELSE FloatVectorArg(rest.nums \o <<ToDouble(stoll(first.value))>>)

\* the leading number `first` of a bare list goes in front of the rest
InsertFirstInteger(first, rest) ==
    IF rest.type = "IntegerVector"
    THEN IntegerVectorArg(<<stoll(first.value)>> \o rest.nums)
    ELSE FloatVectorArg(<<ToDouble(stoll(first.value))>> \o rest.nums)

\* mutant: a leading float does not promote an integer rest
InsertFirstFloat_noPromotion(first, rest) ==
    IF rest.type = "FloatVector"
    THEN FloatVectorArg(<<stod(first.value)>> \o rest.nums)
    ELSE IntegerVectorArg(<<ToInt64(stod(first.value))>> \o rest.nums)

InsertFirstFloat(first, rest) ==
    IF rest.type = "FloatVector"
    THEN FloatVectorArg(<<stod(first.value)>> \o rest.nums)
    ELSE FloatVectorArg(<<stod(first.value)>>
                        \o [i \in 1..Len(rest.nums) |-> ToDouble(rest.nums[i])])

\* the number `first` is followed by a comma and the list parse gave l
parseNumberRest(first, l) ==
    IF ~l.ok THEN l
    ELSE Return(l.st, IF first.type = "Integer" THEN InsertFirstInteger(first, l.val)
                      ELSE InsertFirstFloat(first, l.val))

\* `if (lexer_.peekToken().type == Comma)`, q being the peek
parseNumberNext(first, q) ==
    IF q.tok.type = "Comma"
    THEN parseNumberRest(first, parseNumberList(nextToken(q.st).st))
    ELSE Return(q.st, IF first.type = "Integer" THEN IntegerArg(stoll(first.value))
                      ELSE FloatArg(stod(first.value)))

\* n is `first = lexer_.nextToken()`
parseNumberFirst(n) == parseNumberNext(n.tok, peekToken(n.st))

\* the Integer case and the Float case of parseArgument
parseNumberArgument(s) == parseNumberFirst(nextToken(s))

\* the Identifier case and the String case: n is `token = lexer_.nextToken()`
parseWord(n) ==
    Return(n.st, IF n.tok.type = "Identifier" THEN IdentifierArg(n.tok.value)
                 ELSE StringArg(n.tok.value))

parseArgumentCase(p) ==
    IF p.tok.type \in {"Identifier", "String"} THEN parseWord(nextToken(p.st))
    ELSE IF p.tok.type \in {"Integer", "Float"} THEN parseNumberArgument(p.st)
    ELSE IF p.tok.type \in {"LeftParen", "LeftBracket"} THEN parseVector(p.st)
    ELSE IF p.tok.type \in {"RightParen", "RightBracket"}
    THEN DiscardAndThrow(p.st, "UnexpectedTokenNoExpected", "")
    ELSE Throw(p.st, noWayToReachHere)

parseArgument(s) == parseArgumentCase(peekToken(s))

(***************************************************************************)
(* parseArgumentList.  In the cases below p is the peek of the loop and n  *)
(* the nextToken call that discards the peeked token.                      *)
(***************************************************************************)
\* mutant: a comma is handed to parseArgument too
ArgumentStart_withComma == {"Identifier", "String", "Integer", "Float", "Comma",
                            "LeftParen", "RightParen", "LeftBracket", "RightBracket"}

\* the cases of parseArgumentList that call parseArgument
ArgumentStart == {"Identifier", "String", "Integer", "Float",
                  "LeftParen", "RightParen", "LeftBracket", "RightBracket"}

RECURSIVE parseArgumentListLoop(_, _, _)

\* mutant: a `{` inside a block opens a nested block
atLeftCurly_nesting(n, arguments, multiline) ==
    parseArgumentListLoop(n.st, arguments, TRUE)

\* case LeftCurly
atLeftCurly(n, arguments, multiline) ==
    IF multiline THEN ThrowToken(n, "MismatchedToken", "")
    ELSE parseArgumentListLoop(n.st, arguments, TRUE)

\* case RightCurly
atRightCurly(n, arguments, multiline) ==
    IF ~multiline THEN ThrowToken(n, "MismatchedToken", "")
    ELSE parseArgumentListLoop(n.st, arguments, FALSE)

\* mutant: a line break ends the statement inside a block too
atEndOfLine_always(n, arguments, multiline) == Return(n.st, arguments)

\* case EndOfLine
atEndOfLine(n, arguments, multiline) ==
    IF ~multiline THEN Return(n.st, arguments)
    ELSE parseArgumentListLoop(n.st, arguments, multiline)

\* mutant: end of input closes an open block silently
atEndOfFile_closes(p, n, arguments, multiline) == Return(p.st, arguments)

\* case EndOfFile
atEndOfFile(p, n, arguments, multiline) ==
    IF multiline THEN ThrowToken(n, "UnexpectedToken", "RightCurly")
    ELSE Return(p.st, arguments)

\* mutant: the line break that ends the statement is left in the lookahead slot
parseArgumentListCase_keepsLineBreak(p, n, arguments, multiline) ==
    IF p.tok.type = "LeftCurly" THEN atLeftCurly(n, arguments, multiline)
    ELSE IF p.tok.type = "RightCurly" THEN atRightCurly(n, arguments, multiline)
    ELSE IF p.tok.type = "Comma" THEN ThrowToken(n, "UnexpectedTokenNoExpected", "")
    ELSE IF p.tok.type = "EndOfLine"
    THEN IF ~multiline THEN Return(p.st, arguments)
         ELSE parseArgumentListLoop(n.st, arguments, multiline)
    ELSE IF p.tok.type = "Comment" THEN parseArgumentListLoop(n.st, arguments, multiline)
    ELSE IF p.tok.type = "EndOfFile" THEN atEndOfFile(p, n, arguments, multiline)
    ELSE ThrowToken(n, "UnknownToken", "")

\* the cases that parse no argument
parseArgumentListCase(p, n, arguments, multiline) ==
    IF p.tok.type = "LeftCurly" THEN atLeftCurly(n, arguments, multiline)
    ELSE IF p.tok.type = "RightCurly" THEN atRightCurly(n, arguments, multiline)
    ELSE IF p.tok.type = "Comma" THEN ThrowToken(n, "UnexpectedTokenNoExpected", "")
    ELSE IF p.tok.type = "EndOfLine" THEN atEndOfLine(n, arguments, multiline)
    ELSE IF p.tok.type = "Comment" THEN parseArgumentListLoop(n.st, arguments, multiline)
    ELSE IF p.tok.type = "EndOfFile" THEN atEndOfFile(p, n, arguments, multiline)
    ELSE ThrowToken(n, "UnknownToken", "")

\* a is what `parseArgument()` gave: `arguments.push_back(...)`
parseArgumentListPush(a, arguments, multiline) ==
    IF ~a.ok THEN a
    ELSE parseArgumentListLoop(a.st, Append(arguments, a.val), multiline)

parseArgumentListPeeked(p, arguments, multiline) ==
    IF p.tok.type \in ArgumentStart
    THEN parseArgumentListPush(parseArgument(p.st), arguments, multiline)
    ELSE parseArgumentListCase(p, nextToken(p.st), arguments, multiline)

parseArgumentListLoop(s, arguments, multiline) ==
    parseArgumentListPeeked(peekToken(s), arguments, multiline)

parseArgumentList(s) == parseArgumentListLoop(s, <<>>, FALSE)

(***************************************************************************)
(* parseCommand                                                            *)
(***************************************************************************)
\* mutant: the Command is returned and the buffer is left as it is
parseRestDone_bufferKept(l, name) ==
    IF ~l.ok THEN l
    ELSE Return(l.st, Command(name, l.val))

\* l is what parseArgumentList() gave: `clearConsumedTokens(); return command`
parseRestDone(l, name) ==
    IF ~l.ok THEN l
    ELSE Return(clearConsumedTokens(l.st), Command(name, l.val))

\* `command.arguments = parseArgumentList(); clearConsumedTokens(); return`
parseRest(s, name) == parseRestDone(parseArgumentList(s), name)

\* mutant: end of input where a statement may start is an error
parseCommandAtEndOfFile_raises(s, name) ==
    IF name = <<>> THEN DiscardAndThrow(s, "UnexpectedToken", "Identifier")
    ELSE Return(clearConsumedTokens(s), Command(name, <<>>))

\* mutant: end of input always gives the sentinel
parseCommandAtEndOfFile_sentinel(s, name) ==
    Return(clearConsumedTokens(s), Command(<<>>, <<>>))

\* case EndOfFile: `clearConsumedTokens(); return command`
parseCommandAtEndOfFile(s, name) == Return(clearConsumedTokens(s), Command(name, <<>>))

\* case EndOfLine before a name: `lexer_.nextToken(); clearConsumedTokens()`
skipBlankLine(n) == clearConsumedTokens(n.st)

RECURSIVE parseCommandLoop(_, _)

\* mutant: a comment ends the call
atComment_returns(n, name) == Return(n.st, Command(name, <<>>))

\* case Comment: `lexer_.nextToken()`, and the loop goes on
atComment(n, name) == parseCommandLoop(n.st, name)

\* the token types that start the argument list once the name is read
RestStart == {"Identifier", "String", "Integer", "Float", "LeftParen", "RightParen",
              "LeftBracket", "RightBracket", "LeftCurly", "RightCurly", "Comma",
              "EndOfLine"}

\* mutant: a token that cannot start a statement is skipped
parseCommandCase_skips(p, n, name) ==
    IF p.tok.type = "Identifier" THEN parseCommandLoop(n.st, n.tok.value)
    ELSE IF p.tok.type = "EndOfLine" THEN parseCommandLoop(skipBlankLine(n), name)
    ELSE IF p.tok.type \in RestStart THEN parseCommandLoop(n.st, name)
    ELSE IF p.tok.type = "Comment" THEN atComment(n, name)
    ELSE IF p.tok.type = "EndOfFile" THEN parseCommandAtEndOfFile(p.st, name)
    ELSE ThrowToken(n, "UnknownToken", "")

\* the cases that do not parse the argument list: p is the peek of the loop
\* and n the nextToken call that discards the peeked token
parseCommandCase(p, n, name) ==
    IF p.tok.type = "Identifier" THEN parseCommandLoop(n.st, n.tok.value)
    ELSE IF p.tok.type = "EndOfLine" THEN parseCommandLoop(skipBlankLine(n), name)
    ELSE IF p.tok.type \in RestStart THEN ThrowToken(n, "UnexpectedToken", "Identifier")
    ELSE IF p.tok.type = "Comment" THEN atComment(n, name)
    ELSE IF p.tok.type = "EndOfFile" THEN parseCommandAtEndOfFile(p.st, name)
    ELSE ThrowToken(n, "UnknownToken", "")

parseCommandPeeked(p, name) ==
    IF name /= <<>> /\ p.tok.type \in RestStart THEN parseRest(p.st, name)
    ELSE parseCommandCase(p, nextToken(p.st), name)

parseCommandLoop(s, name) == parseCommandPeeked(peekToken(s), name)

parseCommand(s) == parseCommandLoop(s, <<>>)

hasMoreCommands(s) == hasMoreTokens(s)

(***************************************************************************)
(* Inputs.  A text is typed as a sequence of lexemes; the parser sees only *)
(* the characters.                                                         *)
(***************************************************************************)
IdA == <<"a", " ">>
IdB == <<"b", " ">>
Str == <<"\"", "s", "\"">>
Int1 == <<"1", " ">>
Int2 == <<"2", " ">>
Flt == <<".", "5", " ">>
Comma == <<",">>
LP == <<"(">>
RP == <<")">>
LB == <<"[">>
RB == <<"]">>
LC == <<"{">>
RC == <<"}">>
NL == <<"\n">>
Cmt == <<"#", "c">>
Unk == <<"@">>

AllPieces == {IdA, Str, Int1, Flt, Comma, LP, RP, LB, RB, LC, RC, NL, Cmt, Unk}

SeqsUpTo(S, n) == UNION {[1..k -> S] : k \in 0..n}

RECURSIVE Flatten(_)
Flatten(ps) == IF ps = <<>> THEN <<>> ELSE Head(ps) \o Flatten(Tail(ps))

\* offset of the first character of lexeme i (i may be Len(ps) + 1)
OffsetOf(ps, i) == Len(Flatten(SubSeq(ps, 1, i - 1)))

\* index of the first lexeme that starts at or after offset p
PieceAt(ps, p) ==
    CHOOSE i \in 1..(Len(ps) + 1) :
        /\ OffsetOf(ps, i) >= p
        /\ \A j \in 1..(i - 1) : OffsetOf(ps, j) < p

(***************************************************************************)
(* The driver: construction, hasMoreCommands() and parseCommand().         *)
(***************************************************************************)
NoCommand == Command(<<>>, <<>>)

(***************************************************************************)
(* float arithmetic (IEEE 754 binary32, round to nearest even), as far as  *)
(* RotationManager uses it.  A float is m * 2^e with m = 0 or              *)
(* 2^23 <= |m| < 2^24; the exponent range is not modelled (no overflow, no *)
(* subnormal numbers).                                                     *)
(***************************************************************************)
RECURSIVE Pow2(_)
Pow2(k) == IF k <= 0 THEN 1 ELSE 2 * Pow2(k - 1)

RECURSIVE BitLen(_)
BitLen(n) == IF n = 0 THEN 0 ELSE 1 + BitLen(n \div 2)

FloatZero == [m |-> 0, e |-> 0]

\* n with its k lowest bits rounded away, to nearest, ties to even; sticky:
\* the exact value lies above n
RoundShift(n, k, sticky) ==
    LET q == n \div Pow2(k)
        r == n % Pow2(k)
        half == Pow2(k - 1)
    IN  IF r > half \/ (r = half /\ (sticky \/ q % 2 = 1)) THEN q + 1 ELSE q

\* the float of the integer n of b bits times 2^e, rounded to 24 bits
RoundedTo(n, b, e, sticky) ==
    IF b <= 24
    THEN [m |-> n * Pow2(24 - b), e |-> e - (24 - b)]
    ELSE IF RoundShift(n, b - 24, sticky) = Pow2(24)
    THEN [m |-> Pow2(23), e |-> e + b - 24 + 1]
    ELSE [m |-> RoundShift(n, b - 24, sticky), e |-> e + b - 24]

\* the float nearest to n * 2^e (n > 0; sticky only with more than 24 bits in n)
RoundedFloat(n, e, sticky) ==
    CHOOSE f \in {RoundedTo(n, b, e, sticky) : b \in {BitLen(n)}} : TRUE

FloatNeg(a) == [a EXCEPT !.m = -a.m]

\* a * 2 (exact)
FloatTimesTwo(a) == IF a.m = 0 THEN a ELSE [a EXCEPT !.e = a.e + 1]

\* a / n for a float a > 0 and an int 1 <= n <= 8 (five guard bits)
FloatOverInt(a, n) ==
    CHOOSE f \in {RoundedFloat(q, a.e - 5, (a.m * 32) % n # 0) :
                      q \in {(a.m * 32) \div n}} : TRUE

LowerExponent(a, b) == IF a.e <= b.e THEN a.e ELSE b.e

\* the integer a.m * 2^a.e - b.m * 2^b.e in units of 2^lo
AlignedDifference(a, b, lo) == a.m * Pow2(a.e - lo) - b.m * Pow2(b.e - lo)

\* a - b for floats whose exponents differ by at most six
FloatMinus(a, b) ==
    IF b.m = 0 THEN a
    ELSE IF a.m = 0 THEN FloatNeg(b)
    ELSE CHOOSE f \in {IF n = 0 THEN FloatZero
                       ELSE IF n > 0 THEN RoundedFloat(n, LowerExponent(a, b), FALSE)
                       ELSE FloatNeg(RoundedFloat(-n, LowerExponent(a, b), FALSE)) :
                           n \in {AlignedDifference(a, b, LowerExponent(a, b))}} : TRUE

\* 2 * M_PI as a float: 0xC90FDB * 2^-21
TwoPi == [m |-> 13176795, e |-> -21]

PixelUpperHalf == "upper half block"
PixelLowerHalf == "lower half block"
PixelSpace == " "

\* PixelMatrix(rows, cols): every cell cleared, every glyph a space
PixelMatrix(rows, cols) ==
    /\ rows_ = rows
    /\ cols_ = cols
    /\ matrix_ = [p \in (0..(rows - 1)) \X (0..(cols - 1)) |->
                    IF p[1] % 2 = 1 THEN "DefaultBackground" ELSE "DefaultForeground"]
    /\ display_char_ = [p \in (0..(((rows + 1) \div 2) - 1)) \X (0..(cols - 1)) |->
                          PixelSpace]
    /\ pixels_on = {}

\* main up to the launch of the render thread, for --steps = steps
LaunchThreads(steps) ==
    /\ framebuffer_draw = "A"
    /\ framebuffer_render = "B"
    /\ framebuffer = "null"
    /\ draw_target = "A"
    /\ buffer_mutex = "free"
    /\ running = TRUE
    /\ total_steps = steps + 1
    /\ current_step = 0
    /\ logic_pc = "step"
    /\ render_pc = "check"

\* main with one turn to go and the metrics line off
InitThreads(steps) ==
    /\ LaunchThreads(steps)
    /\ remaining_angle = TwoPi
    /\ show_metrics = FALSE
    /\ logic_rate = 0
    /\ printed_tps = <<>>

\* an ArgParser with nothing declared, and no call of parse
NoArgParser ==
    /\ arg_parser = [positional_list_ |-> <<>>, option_list_ |-> <<>>]
    /\ argv = <<>>
    /\ scan_i = 1
    /\ positional_count = 0
    /\ parsed_args = [arguments_ |-> <<>>, argument_list_ |-> <<>>]
    /\ parse_pc = "returned"
    /\ thrown = ""
    /\ uses = <<>>

\* main with the library objects it constructs
InitMain(steps) == InitThreads(steps) /\ PixelMatrix(1, 1) /\ NoArgParser

\* the stream, hook, lexer and parser constructed over the text ps
InitObjects(ps) ==
    /\ pieces = ps
    /\ input = Flatten(ps)
    /\ raw_pos = 0
    /\ failbit = FALSE
    /\ stream_position_ = 0
    /\ consumed_chars_ = <<>>
    /\ position_ = 0
    /\ line_number_ = 1
    /\ current_line_number_ = 1
    /\ peeked_token_ = <<>>
    /\ op = "construct"
    /\ ret = [status |-> "none", val |-> NoCommand, err |-> NoError]
    /\ more = <<>>
    /\ pre = [pos |-> 0, more |-> FALSE]
    /\ commands = <<>>
    /\ token_log = <<>>
    /\ gets = 0
    /\ ungets = 0
    /\ slot_at_reset = {}

\* the objects constructed over the text ps
InitText(ps) == InitMain(1) /\ InitObjects(ps)

\* CLIParser constructs its ErrorReporter with the default options
InitWith(ps) ==
    /\ InitText(ps)
    /\ color_output_ = TRUE
    /\ show_source_ = TRUE

Init == \E ps \in SeqsUpTo(AllPieces, MaxPieces) : InitWith(ps)

Outcome(r) ==
    IF r.st.diverged THEN [status |-> "diverged", val |-> NoCommand, err |-> NoError]
    ELSE IF r.st.fatal
    THEN [status |-> "raised", val |-> NoCommand,
          err |-> [kind |-> "CannotUnget", expected |-> "", token |-> NoError.token]]
    ELSE IF r.ok THEN [status |-> "returned", val |-> r.val, err |-> NoError]
    ELSE [status |-> "raised", val |-> NoCommand, err |-> r.err]

HasMoreCommands ==
    /\ ret.status /= "diverged"
    /\ op' = "hasMoreCommands"
    /\ more' = <<hasMoreCommands(Cur)>>
    /\ UNCHANGED <<pieces, input, raw_pos, failbit, stream_position_, consumed_chars_,
                   position_, line_number_, current_line_number_, peeked_token_,
                   color_output_, show_source_, ret, pre, commands, token_log, gets, ungets,
                   slot_at_reset>>
    /\ UNCHANGED <<mainVars, libVars>>

\* the call has ended with r: the objects keep the fields it left
ParseCommandEnds(r) ==
    /\ op' = "parseCommand"
    /\ ret' = Outcome(r)
    /\ pre' = [pos |-> stream_position_, more |-> hasMoreCommands(Cur)]
    /\ commands' = IF Outcome(r).status = "returned" /\ Outcome(r).val.name /= <<>>
                   THEN Append(commands, Outcome(r).val) ELSE commands
    /\ raw_pos' = r.st.raw_pos
    /\ failbit' = r.st.failbit
    /\ gets' = r.st.gets
    /\ ungets' = r.st.ungets
    /\ slot_at_reset' = r.st.slot_at_reset
    /\ stream_position_' = r.st.stream_position_
    /\ consumed_chars_' = r.st.consumed_chars_
    /\ position_' = r.st.position_
    /\ line_number_' = r.st.line_number_
    /\ current_line_number_' = r.st.current_line_number_
    /\ peeked_token_' = r.st.peeked_token_

ParseCommand ==
    /\ ret.status /= "diverged"
    /\ ParseCommandEnds(parseCommand(Cur))
    /\ more' = <<>>
    /\ UNCHANGED <<pieces, input, color_output_, show_source_, token_log>>
    /\ UNCHANGED <<mainVars, libVars>>

Next == HasMoreCommands \/ ParseCommand

Spec == Init /\ [][Next]_vars

(***************************************************************************)
(* One-line statements `a arg1 ... argN\n`: every argument form of the     *)
(* grammar, with the Argument its text denotes.                            *)
(***************************************************************************)
Vec2 == <<"1", ",", "2", " ">>
Vec3 == <<"1", ",", ".", "5", ",", "2", " ">>
PVec == <<"(", "1", ",", "2", ")">>
BVec == <<"[", ".", "5", "]">>

ArgForms == {IdA, IdB, Str, Int1, Flt, Vec2, Vec3, PVec, BVec}

ExpectedArg(f) ==
    CASE f = IdA -> IdentifierArg(<<"a">>)
      [] f = IdB -> IdentifierArg(<<"b">>)
      [] f = Str -> StringArg(<<"s">>)
      [] f = Int1 -> IntegerArg(1)
      [] f = Int2 -> IntegerArg(2)
      [] f = Flt -> FloatArg(500000)
      [] f = Vec2 -> IntegerVectorArg(<<1, 2>>)
      [] f = Vec3 -> FloatVectorArg(<<1000000, 500000, 2000000>>)
      [] f = PVec -> IntegerVectorArg(<<1, 2>>)
      [] f = BVec -> FloatVectorArg(<<500000>>)

InitStmt == \E args \in SeqsUpTo(ArgForms, MaxArgs) : InitWith(<<IdA>> \o args \o <<NL>>)

SpecStmt == InitStmt /\ [][Next]_vars

FirstCall == op = "parseCommand" /\ pre.pos = 0

\* the arguments lexemes i..j of the input denote
ExpectedArgs(ps, i, j) == [k \in 1..(j - i + 1) |-> ExpectedArg(ps[i + k - 1])]

\* C1: a well-formed one-line statement `a arg1 ... argN\n` parses to the
\* Command named a with exactly its N arguments, in source order.
C1_StatementParses ==
    FirstCall =>
        /\ ret.status = "returned"
        /\ ret.val = Command(<<"a">>, ExpectedArgs(pieces, 2, Len(pieces) - 1))

BareVectors == {Vec2, Vec3}
StartsWithNumber == {Int1, Flt, Vec2, Vec3}

\* C4: a number that follows, with no comma, a bare list of at least two
\* elements (the leading number counted) ends the list without raising: the
\* vector is returned and the number starts the next argument.
C4_JuxtaposedNumberEndsList ==
    FirstCall =>
        \A i \in 2..(Len(pieces) - 2) :
            (pieces[i] \in BareVectors /\ pieces[i + 1] \in StartsWithNumber
                /\ \A j \in 2..(i - 1) : pieces[j] \notin BareVectors)
            => /\ ret.status = "returned"
               /\ Len(ret.val.arguments) >= i
               /\ ret.val.arguments[i - 1] = ExpectedArg(pieces[i])
               /\ ret.val.arguments[i] = ExpectedArg(pieces[i + 1])

(***************************************************************************)
(* Inputs made of names, braces and line breaks, and what the grammar says *)
(* of the statement that starts at lexeme k: its arguments (as lexeme      *)
(* indices) and the lexeme after it, or the lexeme that is in error.       *)
(***************************************************************************)
BlockPieces == {IdA, IdB, LC, RC, NL}

InitBlock == \E ps \in SeqsUpTo(BlockPieces, MaxBlock) : InitWith(<<IdA>> \o ps)

SpecBlock == InitBlock /\ [][Next]_vars

Ref(kind, at, name, args) == [kind |-> kind, at |-> at, name |-> name, args |-> args]

RECURSIVE SkipBlank(_, _)
SkipBlank(ps, k) == IF k <= Len(ps) /\ ps[k] = NL THEN SkipBlank(ps, k + 1) ELSE k

RECURSIVE RefArgs(_, _, _, _, _)
RefArgs(ps, i, open, name, args) ==
    IF i > Len(ps)
    THEN IF open THEN Ref("eofInBlock", i, name, args) ELSE Ref("command", i, name, args)
    ELSE IF ps[i] = NL
    THEN IF open THEN RefArgs(ps, i + 1, open, name, args)
         ELSE Ref("command", i + 1, name, args)
    ELSE IF ps[i] = LC
    THEN IF open THEN Ref("nested", i, name, args) ELSE RefArgs(ps, i + 1, TRUE, name, args)
    ELSE IF ps[i] = RC
    THEN IF open THEN RefArgs(ps, i + 1, FALSE, name, args) ELSE Ref("unmatched", i, name, args)
    ELSE RefArgs(ps, i + 1, open, name, Append(args, i))

RefCall(ps, k) ==
    LET j == SkipBlank(ps, k) IN
    IF j > Len(ps) THEN Ref("end", j, j, <<>>)
    ELSE IF ps[j] \in {LC, RC} THEN Ref("noName", j, j, <<>>)
    ELSE RefArgs(ps, j + 1, FALSE, j, <<>>)

\* the statement the last parseCommand call started at
RefLast == RefCall(pieces, PieceAt(pieces, pre.pos))

NameOf(f) == SubSeq(f, 1, Len(f) - 1)

\* the lexemes of the statement contain a line break between `{` and `}`
BreakInBlock(r) ==
    \E i, j \in (r.name + 1)..(r.at - 1) :
        i < j /\ pieces[i] = LC /\ pieces[j] = NL /\ \A k \in i..j : pieces[k] /= RC

\* C2: a line break inside `{ ... }` only separates arguments; the statement
\* ends at the first line break outside a block (or at the end of input), and
\* the arguments inside and outside the block come back in source order in
\* one Command.
C2_BlockSpansLines ==
    (op = "parseCommand" /\ RefLast.kind = "command") =>
        /\ ret.status = "returned"
        /\ ret.val = Command(NameOf(pieces[RefLast.name]),
                             [i \in 1..Len(RefLast.args) |-> ExpectedArg(pieces[RefLast.args[i]])])
        /\ stream_position_ = OffsetOf(pieces, RefLast.at)

C2_Witness ==
    /\ op = "parseCommand" /\ RefLast.kind = "command" /\ BreakInBlock(RefLast)
    /\ ret.status = "returned"
    /\ ret.val.arguments = <<IdentifierArg(<<"b">>), IdentifierArg(<<"a">>)>>

\* C6: in an argument list a `{` met while a block is open and a `}` met while
\* none is open raise MismatchedToken at that token's begin offset (blocks
\* are single-level).
C6_SingleLevelBlocks ==
    (op = "parseCommand" /\ RefLast.kind \in {"nested", "unmatched"}) =>
        /\ ret.status = "raised"
        /\ ret.err.kind = "MismatchedToken"
        /\ ret.err.token.type = (IF RefLast.kind = "nested" THEN "LeftCurly" ELSE "RightCurly")
        /\ ret.err.token.begin = OffsetOf(pieces, RefLast.at)

C6_Witness ==
    /\ op = "parseCommand" /\ RefLast.kind = "nested"
    /\ ret.status = "raised" /\ ret.err.kind = "MismatchedToken"
    /\ ret.err.token.begin > 2

\* C7: end of input while a block is open raises UnexpectedToken expecting
\* the right curly brace, and no Command is returned.
C7_EndOfFileInBlock ==
    (op = "parseCommand" /\ RefLast.kind = "eofInBlock") =>
        /\ ret.status = "raised"
        /\ ret.err.kind = "UnexpectedToken"
        /\ ret.err.expected = "RightCurly"
        /\ ret.err.token.type = "EndOfFile"
        /\ ret.val = NoCommand

C7_Witness ==
    /\ op = "parseCommand" /\ RefLast.kind = "eofInBlock" /\ Len(RefLast.args) >= 1
    /\ ret.status = "raised" /\ ret.err.expected = "RightCurly"

(***************************************************************************)
(* Statements whose first argument is a number list: `a`, an optional `(`  *)
(* or `[`, up to MaxElems numbers joined by commas, and what follows.      *)
(***************************************************************************)
N1 == <<"1">>
N2 == <<"2">>
NF == <<".", "5">>
SpNum == <<" ", "1">>

NumElems == {N1, N2, NF}
Opens == {<<>>, <<LP>>, <<LB>>}
TailPieces == {RP, RB, NL, SpNum, Comma, Unk}
Tails == {<<>>} \cup {<<t>> : t \in TailPieces} \cup {<<t, NL>> : t \in TailPieces}

RECURSIVE Join(_)
Join(es) == IF Len(es) <= 1 THEN es ELSE <<Head(es), Comma>> \o Join(Tail(es))

InitVec ==
    \E o \in Opens, es \in SeqsUpTo(NumElems, MaxElems), t \in Tails :
        InitWith(<<IdA>> \o o \o Join(es) \o t)

SpecVec == InitVec /\ [][Next]_vars

IsNumPiece(f) == f \in {N1, N2, NF, SpNum}
IsIntPiece(f) == f \in {N1, N2, SpNum}
IntOf(f) == IF f = N2 THEN 2 ELSE 1
MicroOf(f) == IF f = NF THEN 500000 ELSE IntOf(f) * 1000000

VecOpen(ps) == Len(ps) >= 2 /\ ps[2] \in {LP, LB}
ListStart(ps) == IF VecOpen(ps) THEN 3 ELSE 2
HasList(ps) == ListStart(ps) <= Len(ps) /\ IsNumPiece(ps[ListStart(ps)])

RECURSIVE ListEnd(_, _)
ListEnd(ps, k) ==
    IF k + 2 <= Len(ps) /\ ps[k + 1] = Comma /\ IsNumPiece(ps[k + 2])
    THEN ListEnd(ps, k + 2) ELSE k

ListElems(ps) ==
    LET a == ListStart(ps)
        n == ((ListEnd(ps, a) - a) \div 2) + 1 IN
    [i \in 1..n |-> ps[a + 2 * (i - 1)]]

AfterList(ps) == SubSeq(ps, ListEnd(ps, ListStart(ps)) + 1, Len(ps))

\* the vector a number list denotes under the promotion rule
ExpectedVector(es) ==
    IF \A i \in 1..Len(es) : IsIntPiece(es[i])
    THEN IntegerVectorArg([i \in 1..Len(es) |-> IntOf(es[i])])
    ELSE FloatVectorArg([i \in 1..Len(es) |-> MicroOf(es[i])])

CloserPiece(ps) == IF ps[2] = LP THEN RP ELSE RB
CloserName(ps) == IF ps[2] = LP THEN "RightParen" ELSE "RightBracket"

\* offset of the token lexeme i starts (the end of input when there is none)
TokenOffset(ps, i) ==
    IF i > Len(ps) THEN Len(Flatten(ps))
    ELSE OffsetOf(ps, i) + (IF ps[i] = SpNum THEN 1 ELSE 0)

\* the list is a vector: delimited, or bare with at least two numbers
IsVector(ps) == VecOpen(ps) \/ Len(ListElems(ps)) >= 2

\* the vector is closed where the grammar ends it
VectorClosed(ps) ==
    LET rest == AfterList(ps) IN
    IF VecOpen(ps) THEN rest /= <<>> /\ rest[1] = CloserPiece(ps)
    ELSE rest = <<>> \/ rest[1] = NL

\* C3: a number list parsed as a vector is an IntegerVector exactly when all
\* its numbers are integers; with a float anywhere in it, it is a FloatVector
\* holding every number as a floating-point value; order is kept.
C3_VectorPromotion ==
    (FirstCall /\ HasList(pieces) /\ IsVector(pieces)) =>
        /\ VectorClosed(pieces) =>
              /\ ret.status = "returned"
              /\ ret.val = Command(<<"a">>, <<ExpectedVector(ListElems(pieces))>>)
        /\ ret.status = "returned" =>
              /\ ret.val.arguments /= <<>>
              /\ ret.val.arguments[1] = ExpectedVector(ListElems(pieces))

C3_Witness ==
    /\ FirstCall /\ HasList(pieces) /\ ListElems(pieces) = <<N1, NF, N2>>
    /\ ret.status = "returned"
    /\ ret.val.arguments[1] = FloatVectorArg(<<1000000, 500000, 2000000>>)

Delimited(es, o, c) == Flatten(<<IdA, o>> \o Join(es) \o <<c, NL>>)

\* the parse r returned the Command c
Returns(r, c) == r.ok /\ ~r.st.fatal /\ ~r.st.diverged /\ r.val = c

\* C5: a list of two or more numbers standing alone gives the same vector
\* argument written bare, in parentheses or in brackets.
C5_DelimitersEquivalent ==
    (FirstCall /\ HasList(pieces) /\ ~VecOpen(pieces) /\ Len(ListElems(pieces)) >= 2
        /\ AfterList(pieces) = <<NL>>) =>
        /\ ret.status = "returned"
        /\ Len(ret.val.arguments) = 1
        /\ Returns(parseCommand(Fresh(Delimited(ListElems(pieces), LP, RP))), ret.val)
        /\ Returns(parseCommand(Fresh(Delimited(ListElems(pieces), LB, RB))), ret.val)

C5_Witness ==
    /\ FirstCall /\ ~VecOpen(pieces) /\ pieces = <<IdA, NF, Comma, N1, NL>>
    /\ ret.status = "returned"
    /\ ret.val.arguments = <<FloatVectorArg(<<500000, 1000000>>)>>

\* a delimited list is followed by a token that neither closes it nor, being
\* a comma, continues it
CloserMissing ==
    /\ FirstCall /\ VecOpen(pieces) /\ HasList(pieces)
    /\ \/ AfterList(pieces) = <<>>
       \/ AfterList(pieces)[1] \notin {CloserPiece(pieces), Comma}

\* C8, in the words of the specification: after `(` list or `[` list every token other than the
\* vector's own closer raises UnexpectedToken naming that closer.
C8_AnyOtherTokenNamesCloser ==
    CloserMissing =>
        /\ ret.status = "raised"
        /\ ret.err.kind = "UnexpectedToken"
        /\ ret.err.expected = CloserName(pieces)

\* C8, as the parser behaves: after `(` list or `[` list every token other than the vector's
\* own closer raises UnexpectedToken on that token; the error names the
\* closer, except that a number right after a one-element list names Comma.
C8_MissingCloser ==
    CloserMissing =>
        LET rest == AfterList(pieces)
            at == ListEnd(pieces, ListStart(pieces)) + 1
            juxta == rest /= <<>> /\ IsNumPiece(rest[1]) /\ Len(ListElems(pieces)) = 1 IN
        /\ ret.status = "raised"
        /\ ret.err.kind = "UnexpectedToken"
        /\ ret.err.expected = (IF juxta THEN "Comma" ELSE CloserName(pieces))
        /\ ret.err.token.begin = TokenOffset(pieces, at)

C8_Witness ==
    /\ FirstCall /\ VecOpen(pieces) /\ HasList(pieces) /\ pieces[2] = LP
    /\ AfterList(pieces) /= <<>> /\ AfterList(pieces)[1] = RB
    /\ ret.status = "raised" /\ ret.err.expected = "RightParen"
    /\ ret.err.token.type = "RightBracket"

(***************************************************************************)
(* Exhausted input, over the texts of Spec.                                *)
(***************************************************************************)
\* C9: a parseCommand call made while hasMoreCommands() is false returns the
\* sentinel Command (no name, no arguments) without raising and leaves the
\* stream position where it was, so hasMoreCommands() stays false and every
\* further call does the same.
C9_ExhaustedInputGivesSentinel ==
    (op = "parseCommand" /\ ~pre.more) =>
        /\ ret.status = "returned"
        /\ ret.val = NoCommand
        /\ stream_position_ = pre.pos
        /\ ~hasMoreCommands(Cur)

C9_Witness ==
    /\ op = "parseCommand" /\ ~pre.more /\ pre.pos > 0 /\ commands /= <<>>
    /\ ret.status = "returned" /\ ret.val = NoCommand
    /\ stream_position_ = Len(input)

(***************************************************************************)
(* Texts made of whole lines: statements, blank lines and comment lines,   *)
(* up to MaxLines of them.                                                 *)
(***************************************************************************)
Blank == <<"\n">>
BlankSp == <<" ", "\n">>
CmtLine == <<"#", "c", "\n">>
StmtA == <<"a", " ", "1", "\n">>
StmtB == <<"b", "\n">>

LineForms == {Blank, BlankSp, CmtLine, StmtA, StmtB}
Statements == {StmtA, StmtB}

InitLines == \E ls \in SeqsUpTo(LineForms, MaxLines) : InitWith(ls)

SpecLines == InitLines /\ [][Next]_vars

\* the text without its blank and comment-only lines
StatementsOf(ls) == SelectSeq(ls, LAMBDA l : l \in Statements)

\* the Commands repeated parseCommand calls return, up to the first call that
\* raises or returns the sentinel (at most k calls)
RECURSIVE CommandsFrom(_, _)

CommandsAfter(r, k) ==
    IF r.st.diverged \/ r.st.fatal \/ ~r.ok \/ r.val.name = <<>> THEN <<>>
    ELSE <<r.val>> \o CommandsFrom(r.st, k - 1)

CommandsFrom(s, k) == IF k = 0 THEN <<>> ELSE CommandsAfter(parseCommand(s), k)

CommandOfLine(l) ==
    IF l = StmtA THEN Command(<<"a">>, <<IntegerArg(1)>>) ELSE Command(<<"b">>, <<>>)

IsPrefix(a, b) == Len(a) <= Len(b) /\ a = SubSeq(b, 1, Len(a))

\* the Commands received so far against `stripped`, those of the statement
\* lines stmts parsed on their own
SameAsStripped(stmts, stripped) ==
    /\ stripped = [i \in 1..Len(stmts) |-> CommandOfLine(stmts[i])]
    /\ IsPrefix(commands, stripped)
    /\ (op = "parseCommand" /\ ret.val = NoCommand) => commands = stripped

\* C10: with blank and comment-only lines before and between statements, no
\* call raises, and the Commands returned up to the sentinel are those of the
\* text with these lines removed: one Command per statement, in order.
C10_BlankAndCommentLinesSkipped ==
    /\ ret.status \in {"none", "returned"}
    /\ SameAsStripped(StatementsOf(pieces),
                      CommandsFrom(Fresh(Flatten(StatementsOf(pieces))),
                                   Len(StatementsOf(pieces)) + 1))

C10_Witness ==
    /\ pieces = <<Blank, StmtA, CmtLine, StmtB>>
    /\ op = "parseCommand" /\ ret.status = "returned" /\ ret.val = NoCommand
    /\ commands = <<Command(<<"a">>, <<IntegerArg(1)>>), Command(<<"b">>, <<>>)>>

(***************************************************************************)
(* Diagnostics, over the texts of Spec.                                    *)
(***************************************************************************)
\* the last parseCommand call raised a diagnostic
Raised == ret.status = "raised"

\* the offending token was read by the call that raised and is consumed
OffendingTokenTaken ==
    Raised =>
        /\ peeked_token_ = <<>>
        /\ stream_position_ > pre.pos
        /\ ret.err.token.begin >= pre.pos
        /\ ret.err.token.end = stream_position_

\* a call that raises right after a call that raised meets a later token
RetryMeetsLaterToken ==
    (Raised /\ op' = "parseCommand" /\ ret'.status = "raised") =>
        /\ ret'.err.token.begin >= ret.err.token.end
        /\ ret'.err.token /= ret.err.token
        /\ stream_position_' > stream_position_

\* C11: every diagnostic of parseCommand is raised after the offending token
\* has left the lookahead slot: the raising call has consumed at least one
\* character, up to the end of that token, and a retry after an error never
\* raises on the same token again.
C11_ErrorsConsumeTheToken == []OffendingTokenTaken /\ [][RetryMeetsLaterToken]_vars

C11_Witness ==
    /\ Raised /\ pre.pos > 0 /\ commands = <<>>
    /\ ret.err.token.type = "RightParen" /\ ret.err.token.begin > pre.pos

\* C12: after every parseCommand call, raised or returned, the consumed
\* buffer is empty and the checkpoint equals the stream position.
C12_BufferClearedOnEveryExit ==
    (op = "parseCommand" /\ ret.status \in {"returned", "raised"}) =>
        /\ consumed_chars_ = <<>>
        /\ position_ = stream_position_

(***************************************************************************)
(* The Stream Hook alone: any sequence of get, unget and                   *)
(* clearConsumedTokens over a text of letters and line breaks.             *)
(***************************************************************************)
HookChars == {<<"a">>, <<"\n">>}

InitHook == \E ps \in SeqsUpTo(HookChars, MaxText) : InitWith(ps)

CannotUnget == [kind |-> "CannotUnget", expected |-> "", token |-> NoError.token]

\* a call on the hook has ended in st with the result r
HookCallEnds(name, st, r) ==
    /\ op' = name
    /\ ret' = r
    /\ raw_pos' = st.raw_pos
    /\ failbit' = st.failbit
    /\ gets' = st.gets
    /\ ungets' = st.ungets
    /\ slot_at_reset' = st.slot_at_reset
    /\ stream_position_' = st.stream_position_
    /\ consumed_chars_' = st.consumed_chars_
    /\ position_' = st.position_
    /\ line_number_' = st.line_number_
    /\ current_line_number_' = st.current_line_number_
    /\ UNCHANGED <<pieces, input, peeked_token_, color_output_, show_source_, more,
                   pre, commands, token_log>>
    /\ UNCHANGED <<mainVars, libVars>>

GetEnds(g) ==
    HookCallEnds("get", g.st, [status |-> "returned", val |-> <<g.ok, g.c>>, err |-> NoError])

Get == gets < MaxGets /\ GetEnds(HookGet(Cur))

UngetEnds(u) ==
    HookCallEnds("unget", [u EXCEPT !.fatal = FALSE],
                 IF u.fatal THEN [status |-> "raised", val |-> <<>>, err |-> CannotUnget]
                 ELSE [status |-> "returned", val |-> <<>>, err |-> NoError])

Unget == UngetEnds(HookUnget(Cur))

ClearConsumedTokens ==
    HookCallEnds("clearConsumedTokens", clearConsumedTokens(Cur),
                 [status |-> "returned", val |-> <<>>, err |-> NoError])

NextHook == Get \/ Unget \/ ClearConsumedTokens

SpecHook == InitHook /\ [][NextHook]_vars

\* C13: after any sequence of get, unget and clearConsumedTokens the checkpoint
\* is at most the stream position, the stream position is the number of
\* successful gets minus the number of successful ungets, and the buffer is
\* the input from the checkpoint up to the stream position.
C13_HookInvariants ==
    /\ position_ <= stream_position_
    /\ stream_position_ = gets - ungets
    /\ stream_position_ <= Len(input)
    /\ Len(consumed_chars_) = stream_position_ - position_
    /\ consumed_chars_ = SubSeq(input, position_ + 1, stream_position_)

C13_Witness ==
    /\ op = "unget" /\ ret.status = "returned"
    /\ position_ > 0 /\ consumed_chars_ /= <<>> /\ ungets > 1

\* a call of unget() that finds the buffer empty
UngetOnEmptyBuffer == op' = "unget" /\ consumed_chars_ = <<>>

\* C14: unget with an empty buffer signals the fatal error and changes
\* nothing: the stream position, the line counters, the buffer and the
\* checkpoint keep their values and the Raw Stream is not touched.
C14_UngetOnEmptyBufferFails ==
    [][UngetOnEmptyBuffer =>
        /\ ret'.status = "raised" /\ ret'.err = CannotUnget
        /\ UNCHANGED <<raw_pos, failbit, stream_position_, consumed_chars_, position_,
                       line_number_, current_line_number_, gets, ungets>>]_vars

C14_Witness ==
    /\ op = "unget" /\ ret.status = "raised"
    /\ raw_pos > 0 /\ ~failbit /\ stream_position_ > 0 /\ current_line_number_ > 1

(***************************************************************************)
(* The lexer alone: any interleaving of nextToken() and peekToken() over   *)
(* the texts of Spec.                                                      *)
(***************************************************************************)
\* a call on the lexer has ended with r
LexerCallEnds(name, r) ==
    /\ op' = name
    /\ ret' = [status |-> IF r.st.diverged THEN "diverged"
                          ELSE IF r.st.fatal THEN "raised" ELSE "returned",
               val |-> r.tok, err |-> NoError]
    /\ raw_pos' = r.st.raw_pos
    /\ failbit' = r.st.failbit
    /\ gets' = r.st.gets
    /\ ungets' = r.st.ungets
    /\ slot_at_reset' = r.st.slot_at_reset
    /\ stream_position_' = r.st.stream_position_
    /\ consumed_chars_' = r.st.consumed_chars_
    /\ position_' = r.st.position_
    /\ line_number_' = r.st.line_number_
    /\ current_line_number_' = r.st.current_line_number_
    /\ peeked_token_' = r.st.peeked_token_
    /\ UNCHANGED <<pieces, input, color_output_, show_source_, more, pre, commands>>
    /\ UNCHANGED <<mainVars, libVars>>

NextTokenEnds(r) ==
    /\ LexerCallEnds("nextToken", r)
    /\ token_log' = IF r.st.diverged \/ r.st.fatal THEN token_log
                    ELSE Append(token_log, r.tok)

NextToken ==
    /\ ret.status = "none" \/ ret.status = "returned"
    /\ Len(token_log) < MaxTokens
    /\ NextTokenEnds(nextToken(Cur))

PeekToken ==
    /\ ret.status = "none" \/ ret.status = "returned"
    /\ LexerCallEnds("peekToken", peekToken(Cur))
    /\ UNCHANGED token_log

NextLexer == NextToken \/ PeekToken

SpecLexer == Init /\ [][NextLexer]_vars

\* the first k tokens of the text when only nextToken() is called
RECURSIVE TokensFrom(_, _)
TokensThen(n, k) ==
    IF n.st.diverged \/ n.st.fatal THEN <<>> ELSE <<n.tok>> \o TokensFrom(n.st, k - 1)

TokensFrom(s, k) == IF k = 0 THEN <<>> ELSE TokensThen(nextToken(s), k)

SameAsNextTokenAlone(log, alone) == log = alone

\* a returned call of peekToken() is followed by a call that returns the
\* same token; a second peek reads no character
PeekThenCall ==
    (op = "peekToken" /\ ret.status = "returned") =>
        /\ ret'.status = "returned"
        /\ ret'.val = ret.val
        /\ op' = "peekToken" =>
              UNCHANGED <<raw_pos, stream_position_, consumed_chars_, gets, ungets,
                          peeked_token_>>

\* C15: the lookahead is one slot: peekToken returns the token the next
\* nextToken returns, consecutive peeks return the same token and read no
\* character, and under every interleaving of the two calls the tokens
\* nextToken has returned are those of calling nextToken alone on the text.
C15_SingleSlotLookahead ==
    /\ [](Len(peeked_token_) <= 1)
    /\ [](SameAsNextTokenAlone(token_log, TokensFrom(Fresh(input), Len(token_log))))
    /\ [][PeekThenCall]_vars

C15_Witness ==
    /\ op = "nextToken" /\ ret.status = "returned" /\ Len(token_log) = 3
    /\ peeked_token_ = <<>> /\ gets > stream_position_
    /\ token_log[1].type = "Integer" /\ token_log[2].type = "Comma"
    /\ token_log[3].type = "Float"

\* the last call on the lexer returned a token of this type
Lexed(type) ==
    /\ op \in {"nextToken", "peekToken"}
    /\ ret.status = "returned"
    /\ ret.val.type = type

\* the text of the token the last call returned, as it stands in the input
RawText(tok) == SubSeq(input, tok.begin + 1, tok.end)

\* C16: reading a comment terminates on every text: the Comment token holds
\* the characters from `#` up to, not including, the next line break or the
\* end of input, whichever comes first.
C16_CommentTerminates ==
    /\ ret.status /= "diverged"
    /\ Lexed("Comment") =>
          /\ ret.val.begin < Len(input) /\ input[ret.val.begin + 1] = "#"
          /\ ret.val.value = RawText(ret.val)
          /\ \A i \in 1..Len(ret.val.value) : ret.val.value[i] /= "\n"
          /\ ret.val.end = Len(input) \/ input[ret.val.end + 1] = "\n"

(***************************************************************************)
(* String literals: an opening quote followed by any characters among a    *)
(* letter, backslash, quote, line break and carriage return, at the start  *)
(* of the text or after a space; the lexer alone reads the text.           *)
(***************************************************************************)
StringChars == {<<"a">>, <<"\\">>, <<"\"">>, <<"\n">>, <<"\r">>}

InitString ==
    \E lead \in {<<>>, <<" ">>} :
        \E body \in SeqsUpTo(StringChars, MaxBody) :
            InitWith(<<lead, <<"\"">>>> \o body)

SpecString == InitString /\ [][NextLexer]_vars

\* character i of the literal that starts at lo is escaped when an unescaped
\* backslash stands right before it
RECURSIVE EscapedNext(_, _, _)
EscapedNext(t, lo, i) == i > lo /\ t[i - 1] = "\\" /\ ~EscapedNext(t, lo, i - 1)

\* ... or before the carriage returns that stand right before it
RECURSIVE EscapedThroughCR(_, _, _)
EscapedThroughCR(t, lo, i) ==
    \E j \in lo..(i - 1) :
        /\ t[j] = "\\"
        /\ \A k \in (j + 1)..(i - 1) : t[k] = "\r"
        /\ ~EscapedThroughCR(t, lo, j)

\* offset of the first quote from lo on that is not in the escaped set E
Closers(t, lo, E) == {i \in lo..Len(t) : t[i] = "\"" /\ i \notin E}

ClosingQuote(t, lo, E) ==
    IF Closers(t, lo, E) = {} THEN 0
    ELSE CHOOSE i \in Closers(t, lo, E) : \A j \in Closers(t, lo, E) : i <= j

\* what the characters lo..hi contribute: an escaped character itself unless
\* it is a line break or a carriage return, an unescaped one itself unless
\* it is the backslash
RECURSIVE Contribution(_, _, _, _)
Contribution(t, i, hi, E) ==
    IF i > hi THEN <<>>
    ELSE (IF i \in E THEN (IF t[i] \in {"\n", "\r"} THEN <<>> ELSE <<t[i]>>)
          ELSE (IF t[i] = "\\" THEN <<>> ELSE <<t[i]>>))
         \o Contribution(t, i + 1, hi, E)

LastOf(t, close) == IF close = 0 THEN Len(t) ELSE close - 1

LiteralValue(t, lo, E) == Contribution(t, lo, LastOf(t, ClosingQuote(t, lo, E)), E)

AsStated(t, lo) == {i \in lo..Len(t) : EscapedNext(t, lo, i)}

AsRead(t, lo) == {i \in lo..Len(t) : EscapedThroughCR(t, lo, i)}

\* C17: for every String token, begin is the offset of the opening quote and
\* end is one past the unescaped quote that closed the literal.
C17_StringSpan ==
    Lexed("String") =>
        /\ input[ret.val.begin + 1] = "\""
        /\ ret.val.end = ClosingQuote(input, ret.val.begin + 2,
                                      AsRead(input, ret.val.begin + 2))

\* C18, in the words of the specification: the backslash escapes exactly the
\* next character; an escaped line break or carriage return contributes
\* nothing, any other escaped character itself, and every unescaped
\* character but the quote itself.
C18_BackslashEscapesNextCharacter ==
    Lexed("String") =>
        ret.val.value = LiteralValue(input, ret.val.begin + 2,
                                     AsStated(input, ret.val.begin + 2))

\* C18, as the lexer reads: as above, except that the escape stays pending
\* over an escaped carriage return, so the character after backslash and
\* carriage returns is escaped too (backslash, carriage return, line break
\* contributes nothing).
C18_EscapePendingOverCarriageReturn ==
    Lexed("String") =>
        ret.val.value = LiteralValue(input, ret.val.begin + 2,
                                     AsRead(input, ret.val.begin + 2))

C18_Witness ==
    /\ Lexed("String")
    /\ input = <<"\"", "\\", "\r", "\n", "a", "\"">>
    /\ ret.val = CLIToken("String", <<"a">>, 0, 6)

(***************************************************************************)
(* Error Reporter.  A message is a sequence of pieces of text: characters, *)
(* the fixed words of the builders, and the two ANSI sequences.  The       *)
(* message of a raised call is built at the throw, in the state the call   *)
(* leaves, so it is a function of that state and of the error raised.      *)
(***************************************************************************)
RED == "ESC[31m"
RESET == "ESC[0m"

toString(type) ==
    CASE type = "Identifier" -> "identifier"
      [] type = "String" -> "string"
      [] type = "Integer" -> "integer"
      [] type = "Float" -> "float"
      [] type = "LeftParen" -> "left paren"
      [] type = "RightParen" -> "right paren"
      [] type = "LeftBracket" -> "left bracket"
      [] type = "RightBracket" -> "right bracket"
      [] type = "LeftCurly" -> "left curly"
      [] type = "RightCurly" -> "right curly"
      [] type = "Comma" -> "comma"
      [] type = "EndOfLine" -> "end of line"
      [] type = "Comment" -> "comment"
      [] type = "EndOfFile" -> "end of file"
      [] type = "Unknown" -> "unknown"
      [] OTHER -> type

\* offset of the first line break of str, 0 when it has none
NewlineAt(str) ==
    IF \A i \in 1..Len(str) : str[i] /= "\n" THEN 0
    ELSE CHOOSE i \in 1..Len(str) :
            str[i] = "\n" /\ \A j \in 1..(i - 1) : str[j] /= "\n"

\* colorString wraps every line of str in color ... RESET; it does not read
\* color_output_
RECURSIVE colorString(_, _)
colorStringLine(str, newline_pos, color) ==
    IF newline_pos = 0 THEN <<color>> \o str \o <<RESET>>
    ELSE <<color>> \o SubSeq(str, 1, newline_pos - 1) \o <<RESET, "\n">>
         \o colorString(SubSeq(str, newline_pos + 1, Len(str)), color)

colorString(str, color) ==
    IF str = <<>> THEN <<>> ELSE colorStringLine(str, NewlineAt(str), color)

RECURSIVE addPrefix(_, _)
addPrefix(prefix, str) ==
    IF str = <<>> THEN <<>>
    ELSE (IF Head(str) = "\n" THEN <<"\n">> \o prefix ELSE <<Head(str)>>)
         \o addPrefix(prefix, Tail(str))

Max(a, b) == IF a >= b THEN a ELSE b
Min(a, b) == IF a <= b THEN a ELSE b

\* mutant: the begin of the range is not clamped to the buffer
highlight_begin_unclamped(s, begin) == begin - s.position_

highlight_begin(s, begin) == Max(begin - s.position_, 0)

\* mutant: the end of the range is not clamped to the buffer
highlight_end_unclamped(s, end) == end - s.position_ + 1

highlight_end(s, end) == Min(end - s.position_ + 1, Len(s.consumed_chars_))

line_number_str(s) == <<" ", " ">> \o ToStringInt(s.line_number_) \o <<" ">>

Spaces(n) == [i \in 1..n |-> " "]

\* the snippet once the range [hb, he) is known
Highlighted(s, hb, he) ==
    IF hb > he THEN <<>>
    ELSE line_number_str(s) \o <<"| ">>
         \o addPrefix(Spaces(Len(line_number_str(s))) \o <<"| ">>,
                      SubSeq(s.consumed_chars_, 1, hb)
                      \o colorString(SubSeq(s.consumed_chars_, hb + 1, he), RED)
                      \o SubSeq(s.consumed_chars_, he + 1, Len(s.consumed_chars_)))

getSourceSnippetReport(s, begin, end) ==
    Highlighted(s, highlight_begin(s, begin), highlight_end(s, end))

Position(tok) == <<" at position ">> \o ToStringInt(tok.begin)

Quoted(tok) ==
    IF tok.type = "EndOfLine" THEN <<>> ELSE <<" '">> \o tok.value \o <<"'">>

\* the five builders, up to `if (show_source_)`
Message(e) ==
    colorString(<<"Error: ">>, RED) \o
    CASE e.kind = "UnexpectedToken" ->
            <<"expected ", toString(e.expected)>> \o Position(e.token)
            \o <<" but got ", toString(e.token.type)>> \o Quoted(e.token)
      [] e.kind = "UnexpectedTokenNoExpected" ->
            <<"unexpected ", toString(e.token.type)>> \o Position(e.token)
            \o Quoted(e.token)
      [] e.kind = "MismatchedToken" ->
            <<"mismatched ", toString(e.token.type)>> \o Position(e.token)
            \o Quoted(e.token)
      [] OTHER ->
            <<"unknown token">> \o Position(e.token)
            \o <<" '">> \o e.token.value \o <<"'">>

Report(s, e, show_source) ==
    Message(e) \o
    (IF show_source
     THEN <<"\n">> \o getSourceSnippetReport(s, e.token.begin, e.token.end)
     ELSE <<>>)

\* the last parseCommand call raised a diagnostic of the Error Reporter
Diagnosed ==
    /\ op = "parseCommand" /\ ret.status = "raised"
    /\ ret.err.kind \in {"UnexpectedToken", "UnexpectedTokenNoExpected",
                         "MismatchedToken", "UnknownToken"}

\* the range the snippet highlights is r
HighlightIs(hb, he, b, e) == hb = b /\ he = e

\* C19: for every diagnostic of parseCommand (source display is on) the
\* highlighted range lies within the buffer and is the span of the offending
\* token shifted by the checkpoint.
C19_HighlightIsTokenSpan ==
    (Diagnosed /\ show_source_) =>
        /\ 0 <= highlight_begin(Cur, ret.err.token.begin)
        /\ highlight_begin(Cur, ret.err.token.begin)
              <= highlight_end(Cur, ret.err.token.end)
        /\ highlight_end(Cur, ret.err.token.end) <= Len(consumed_chars_)
        /\ HighlightIs(highlight_begin(Cur, ret.err.token.begin),
                       highlight_end(Cur, ret.err.token.end),
                       ret.err.token.begin - position_,
                       ret.err.token.end - position_)
        /\ SubSeq(consumed_chars_, ret.err.token.begin - position_ + 1,
                  ret.err.token.end - position_)
              = RawText(ret.err.token)

C19_Witness ==
    /\ Diagnosed /\ show_source_
    /\ position_ > 0
    /\ ret.err.token.begin > position_
    /\ ret.err.token.end > ret.err.token.begin + 1

(***************************************************************************)
(* An Error Reporter constructed with either value of its two options.     *)
(***************************************************************************)
ReportPieces == {IdA, Int1, Comma, LP, RP, LC, RC, NL, Unk}

InitReport ==
    \E ps \in SeqsUpTo(ReportPieces, MaxPieces) :
        \E c \in BOOLEAN, sh \in BOOLEAN :
            InitText(ps) /\ color_output_ = c /\ show_source_ = sh

SpecReport == InitReport /\ [][Next]_vars

HasAnsi(report) == \E i \in 1..Len(report) : report[i] \in {RED, RESET}

HasSnippet(report) == \E i \in 1..Len(report) : report[i] = "| "

OptionsObeyed(report) ==
    /\ ~color_output_ => ~HasAnsi(report)
    /\ ~show_source_ => ~HasSnippet(report)
    /\ (color_output_ /\ show_source_) => (HasAnsi(report) /\ HasSnippet(report))

\* C20: each option acts on its own on every diagnostic: without
\* color_output the message holds no ANSI sequence, without show_source it
\* holds no snippet, with both it holds colour codes and the snippet.
C20_OptionsIndependent ==
    Diagnosed => OptionsObeyed(Report(Cur, ret.err, show_source_))

(***************************************************************************)
(* Kinds of diagnostics, over the texts of Spec.                           *)
(***************************************************************************)
\* C21: a diagnostic whose offending token the lexer classified Unknown is
\* UnknownToken, wherever in the grammar the token stands.
C21_UnknownTokenEverywhere ==
    (Diagnosed /\ ret.err.token.type = "Unknown") => ret.err.kind = "UnknownToken"

Openers == {LP, LB, LC}

\* the first call raised at a closing token of a statement that starts with
\* a command name and holds no opener before that token
StrayCloser ==
    /\ Diagnosed /\ pre.pos = 0
    /\ ret.err.token.type \in {"RightParen", "RightBracket", "RightCurly"}
    /\ pieces[1] = IdA
    /\ \A j \in 1..(PieceAt(pieces, ret.err.token.begin) - 1) : pieces[j] \notin Openers

\* C22: a closing token of any of the three kinds with no matching opener
\* raises MismatchedToken: `)` and `]` in argument position as well as `}`.
C22_StrayCloserIsMismatched == StrayCloser => ret.err.kind = "MismatchedToken"

(***************************************************************************)
(* Arguments of the Commands returned, over the statements of SpecStmt.    *)
(***************************************************************************)
\* the alternative of `data` that the tag selects
PayloadOf(type) ==
    CASE type \in {"Identifier", "String"} -> "StringData"
      [] type = "Integer" -> "IntegerData"
      [] type = "Float" -> "FloatData"
      [] type = "IntegerVector" -> "IntegerVectorData"
      [] type = "FloatVector" -> "FloatVectorData"
      [] OTHER -> "none"

WellTagged(a) ==
    /\ a.index = PayloadOf(a.type)
    /\ a.index = "StringData" => a.nums = <<>>
    /\ a.index \in {"IntegerData", "FloatData"} => (Len(a.nums) = 1 /\ a.text = <<>>)
    /\ a.index \in {"IntegerVectorData", "FloatVectorData"} =>
          (Len(a.nums) >= 1 /\ a.text = <<>>)
    /\ \A i \in 1..Len(a.nums) : a.nums[i] \in Int

\* C23: every Argument of every Command returned has the payload its type
\* tag selects, and a vector argument holds at least one element.
C23_TagMatchesPayload ==
    (op = "parseCommand" /\ ret.status = "returned") =>
        \A i \in 1..Len(ret.val.arguments) : WellTagged(ret.val.arguments[i])

C23_Witness ==
    /\ op = "parseCommand" /\ ret.status = "returned"
    /\ Len(ret.val.arguments) = 3
    /\ ret.val.arguments[1].type = "FloatVector"
    /\ ret.val.arguments[2].type = "String"
    /\ ret.val.arguments[3].type = "IntegerVector"

(***************************************************************************)
(* Number candidates: a text that starts with a digit, a sign or a point   *)
(* and goes on with digits, letters, point and sign, alone or followed by  *)
(* a comma; the lexer alone reads the text.                                *)
(***************************************************************************)
NumberStart == {<<"1">>, <<"5">>, <<"-">>, <<".">>}
NumberChars == {<<"0">>, <<"1">>, <<"2">>, <<"5">>, <<".">>, <<"-">>, <<"f">>, <<"a">>}

InitNumber ==
    \E first \in NumberStart :
        \E rest \in SeqsUpTo(NumberChars, MaxNumber - 1) :
            \E after \in {<<>>, <<Comma>>} :
                InitWith(<<first>> \o rest \o after)

SpecNumber == InitNumber /\ [][NextLexer]_vars

\* the positions of t that hold a point
Points(t) == {i \in 1..Len(t) : t[i] = "."}

\* an optional sign and then digits only, at least one
IntegerShape(t) == Unsigned(t) /= <<>> /\ \A i \in 1..Len(Unsigned(t)) : isDigit(Unsigned(t)[i])

\* an optional sign and then digits around at most one point, at least one digit
FloatShape(t) ==
    /\ Cardinality(Points(Unsigned(t))) <= 1
    /\ \A i \in 1..Len(Unsigned(t)) : isDigit(Unsigned(t)[i]) \/ Unsigned(t)[i] = "."
    /\ \E i \in 1..Len(Unsigned(t)) : isDigit(Unsigned(t)[i])

Suffixed(t) == t /= <<>> /\ t[Len(t)] \in {"f", "F"}

Stripped(t) == IF Suffixed(t) THEN SubSeq(t, 1, Len(t) - 1) ELSE t

\* the token type the rule gives the candidate t
TypeOfCandidate(t) ==
    IF IntegerShape(Stripped(t)) THEN (IF Suffixed(t) THEN "Unknown" ELSE "Integer")
    ELSE IF FloatShape(Stripped(t)) THEN "Float"
    ELSE "Unknown"

\* the longest run of number characters of t from offset b on ends here
RunEnd(t, b) ==
    CHOOSE e \in b..Len(t) :
        /\ \A i \in (b + 1)..e : isNumberChar(t[i])
        /\ e = Len(t) \/ ~isNumberChar(t[e + 1])

\* the last call returned the token that starts the text
FirstToken ==
    /\ op \in {"nextToken", "peekToken"} /\ ret.status = "returned"
    /\ ret.val.begin = 0 /\ ret.val.type /= "EndOfFile"

\* C24: a number candidate is one maximal run of digits, letters, `_`, `.`,
\* `-`, `+` and gives one token: Integer when it is an integer without the
\* f/F suffix, Unknown when it is an integer with the suffix, Float when the
\* text without the suffix is a floating-point literal, Unknown otherwise.
C24_NumberCandidate ==
    FirstToken =>
        /\ ret.val.end = RunEnd(input, 0)
        /\ ret.val.type = TypeOfCandidate(RawText(ret.val))

C24_Witness ==
    /\ FirstToken /\ op = "nextToken"
    /\ input = <<"5", ".", "0", "f", ",">>
    /\ ret.val = CLIToken("Float", <<"5", ".", "0", "0", "0", "0", "0", "0">>, 0, 4)

(***************************************************************************)
(* roulette.cpp: the logic thread (the loop of main) and the render        *)
(* thread.  The two framebuffers are "A" and "B".  A step of a thread is   *)
(* one action; clearing, drawing and copying take time, so each is a       *)
(* place the thread stands at: logic_pc = "clearing" and "drawing" while   *)
(* the rasterizer writes into draw_target, render_pc = "copying" while     *)
(* Renderer::render reads *framebuffer.                                     *)
(***************************************************************************)
\* the remaining angles main starts from (config.rounds * 2 * M_PI + stop_angle,
\* positive): a power of two, an all-ones significand, 2 * M_PI
InitialAngles == {[m |-> 8388608, e |-> 0], [m |-> 16777215, e |-> -20], TwoPi}

InitRoulette ==
    \E steps \in 1..MaxSteps, angle \in InitialAngles, metrics \in BOOLEAN :
        /\ LaunchThreads(steps)
        /\ remaining_angle = angle
        /\ show_metrics = metrics
        /\ logic_rate = 0
        /\ printed_tps = <<>>
        /\ PixelMatrix(1, 1)
        /\ NoArgParser
        /\ InitObjects(<<>>)
        /\ color_output_ = TRUE
        /\ show_source_ = TRUE

remaining_steps_afterIncrement(total, current) == total - current - 1

\* `int remaining_steps = total_steps - current_step`
remaining_steps(total, current) == total - current

\* `float delta_angle = remaining_angle * 2 / remaining_steps`
delta_angle(remaining, steps) == FloatOverInt(FloatTimesTwo(remaining), steps)

\* `while (!rotation_manager.step())`: one call of RotationManager::step
\* (current_angle, which only the drawing reads, is not modelled)
RotationStep ==
    /\ logic_pc = "step"
    /\ IF remaining_angle.m <= 0
       THEN /\ logic_pc' = "stop"
            /\ UNCHANGED <<current_step, remaining_angle>>
       ELSE /\ \E delta \in {delta_angle(remaining_angle,
                                         remaining_steps(total_steps, current_step))} :
                   remaining_angle' = FloatMinus(remaining_angle, delta)
            /\ current_step' = current_step + 1
            /\ logic_pc' = "setBuffers"
    /\ UNCHANGED <<framebuffer_draw, framebuffer_render, framebuffer, draw_target,
                   buffer_mutex, running, total_steps, render_pc>>
    /\ UNCHANGED <<parserVars, libVars, metricVars>>

\* rasterizer.setBuffers(framebuffer_draw, depthbuffer); clearFrameBuffer begins
SetBuffers ==
    /\ logic_pc = "setBuffers"
    /\ draw_target' = framebuffer_draw
    /\ logic_pc' = "clearing"
    /\ UNCHANGED <<framebuffer_draw, framebuffer_render, framebuffer, buffer_mutex,
                   running, total_steps, current_step, render_pc>>
    /\ UNCHANGED <<parserVars, libVars, remaining_angle, metricVars>>

\* the clears are done; roulette.render(rasterizer) begins
ClearFrameBuffer ==
    /\ logic_pc = "clearing"
    /\ logic_pc' = "drawing"
    /\ UNCHANGED <<framebuffer_draw, framebuffer_render, framebuffer, draw_target,
                   buffer_mutex, running, total_steps, current_step, render_pc>>
    /\ UNCHANGED <<parserVars, libVars, remaining_angle, metricVars>>

\* roulette.render(rasterizer) is done
RouletteRender ==
    /\ logic_pc = "drawing"
    /\ logic_pc' = "swap"
    /\ UNCHANGED <<framebuffer_draw, framebuffer_render, framebuffer, draw_target,
                   buffer_mutex, running, total_steps, current_step, render_pc>>
    /\ UNCHANGED <<parserVars, libVars, remaining_angle, metricVars>>

\* std::swap(framebuffer_draw, framebuffer_render): <<new draw, new render>>
SwapBuffers(draw, render) == <<render, draw>>

Swapped(pair) ==
    /\ framebuffer_draw' = pair[1]
    /\ framebuffer_render' = pair[2]

Swap ==
    /\ logic_pc = "swap"
    /\ Swapped(SwapBuffers(framebuffer_draw, framebuffer_render))
    /\ logic_pc' = "setBuffer"
    /\ UNCHANGED <<framebuffer, draw_target, buffer_mutex, running, total_steps,
                   current_step, render_pc>>
    /\ UNCHANGED <<parserVars, libVars, remaining_angle, metricVars>>

\* renderer.setBuffer(framebuffer_render): the lock_guard is taken
SetBufferLock ==
    /\ logic_pc = "setBuffer"
    /\ buffer_mutex = "free"
    /\ buffer_mutex' = "logic"
    /\ logic_pc' = "store"
    /\ UNCHANGED <<framebuffer_draw, framebuffer_render, framebuffer, draw_target,
                   running, total_steps, current_step, render_pc>>
    /\ UNCHANGED <<parserVars, libVars, remaining_angle, metricVars>>

\* mutant: the back buffer is handed to the renderer
FrontBuffer_back(draw, render) == draw

\* the argument of renderer.setBuffer(framebuffer_render)
FrontBuffer(draw, render) == render

\* `framebuffer = buffer` and the end of the lock_guard's scope
SetBufferStore ==
    /\ logic_pc = "store"
    /\ framebuffer' = FrontBuffer(framebuffer_draw, framebuffer_render)
    /\ buffer_mutex' = "free"
    /\ logic_pc' = "wait"
    /\ UNCHANGED <<framebuffer_draw, framebuffer_render, draw_target, running,
                   total_steps, current_step, render_pc>>
    /\ UNCHANGED <<parserVars, libVars, remaining_angle, metricVars>>

MaxRate == 2        \* measurements logic_timer completes

\* logic_timer.waitNext() up to `if (time_accumulator >= 1.0)`: a second of
\* measurement is complete (the write of actual_rate begins) or it is not
LogicWait ==
    /\ logic_pc = "wait"
    /\ \/ logic_pc' = "step"
       \/ logic_rate < MaxRate /\ logic_pc' = "rate"
    /\ UNCHANGED <<framebuffer_draw, framebuffer_render, framebuffer, draw_target,
                   buffer_mutex, running, total_steps, current_step, render_pc>>
    /\ UNCHANGED <<parserVars, libVars, remaining_angle, metricVars>>

\* `actual_rate = counter / time_accumulator` of logic_timer is written
LogicRate ==
    /\ logic_pc = "rate"
    /\ logic_rate' = logic_rate + 1
    /\ logic_pc' = "step"
    /\ UNCHANGED <<framebuffer_draw, framebuffer_render, framebuffer, draw_target,
                   buffer_mutex, running, total_steps, current_step, render_pc>>
    /\ UNCHANGED <<parserVars, libVars, remaining_angle, show_metrics, printed_tps>>

\* `running = false`
Stop ==
    /\ logic_pc = "stop"
    /\ running' = FALSE
    /\ logic_pc' = "join"
    /\ UNCHANGED <<framebuffer_draw, framebuffer_render, framebuffer, draw_target,
                   buffer_mutex, total_steps, current_step, render_pc>>
    /\ UNCHANGED <<parserVars, libVars, remaining_angle, metricVars>>

\* render_thread.join()
JoinRenderThread ==
    /\ logic_pc = "join"
    /\ render_pc = "done"
    /\ logic_pc' = "done"
    /\ UNCHANGED <<framebuffer_draw, framebuffer_render, framebuffer, draw_target,
                   buffer_mutex, running, total_steps, current_step, render_pc>>
    /\ UNCHANGED <<parserVars, libVars, remaining_angle, metricVars>>

\* `while (running)` of the render thread
RenderCheck ==
    /\ render_pc = "check"
    /\ render_pc' = IF running THEN "render" ELSE "done"
    /\ UNCHANGED <<framebuffer_draw, framebuffer_render, framebuffer, draw_target,
                   buffer_mutex, running, total_steps, current_step, logic_pc>>
    /\ UNCHANGED <<parserVars, libVars, remaining_angle, metricVars>>

\* Renderer::render takes the lock_guard; `if (framebuffer)` the copy begins
RenderLock ==
    /\ render_pc = "render"
    /\ buffer_mutex = "free"
    /\ buffer_mutex' = "render"
    /\ render_pc' = IF framebuffer = "null" THEN "unlock" ELSE "copying"
    /\ UNCHANGED <<framebuffer_draw, framebuffer_render, framebuffer, draw_target,
                   running, total_steps, current_step, logic_pc>>
    /\ UNCHANGED <<parserVars, libVars, remaining_angle, metricVars>>

\* graphicsBufferToPixelMatrix(*framebuffer, pixel_matrix) is done
RenderCopy ==
    /\ render_pc = "copying"
    /\ render_pc' = "unlock"
    /\ UNCHANGED <<framebuffer_draw, framebuffer_render, framebuffer, draw_target,
                   buffer_mutex, running, total_steps, current_step, logic_pc>>
    /\ UNCHANGED <<parserVars, libVars, remaining_angle, metricVars>>

\* the end of the lock_guard's scope
RenderUnlock ==
    /\ render_pc = "unlock"
    /\ buffer_mutex' = "free"
    /\ render_pc' = "print"
    /\ UNCHANGED <<framebuffer_draw, framebuffer_render, framebuffer, draw_target,
                   running, total_steps, current_step, logic_pc>>
    /\ UNCHANGED <<parserVars, libVars, remaining_angle, metricVars>>

\* the frame is printed; `if (config.show_metrics)`
RenderPrint ==
    /\ render_pc = "print"
    /\ render_pc' = IF show_metrics THEN "metrics" ELSE "check"
    /\ UNCHANGED <<framebuffer_draw, framebuffer_render, framebuffer, draw_target,
                   buffer_mutex, running, total_steps, current_step, logic_pc>>
    /\ UNCHANGED <<parserVars, libVars, remaining_angle, metricVars>>

\* what logic_timer.getActualRate() can give the render thread: the value
\* held, or, while the logic thread writes actual_rate (a data race), also
\* the value being written
ActualRateRead == IF logic_pc = "rate" THEN {logic_rate, logic_rate + 1} ELSE {logic_rate}

\* the metrics line is printed; render_timer.waitNext()
RenderMetrics ==
    /\ render_pc = "metrics"
    /\ \E rate \in ActualRateRead : printed_tps' = <<rate>>
    /\ render_pc' = "check"
    /\ UNCHANGED <<framebuffer_draw, framebuffer_render, framebuffer, draw_target,
                   buffer_mutex, running, total_steps, current_step, logic_pc>>
    /\ UNCHANGED <<parserVars, libVars, remaining_angle, show_metrics, logic_rate>>

NextRoulette ==
    \/ RotationStep \/ SetBuffers \/ ClearFrameBuffer \/ RouletteRender \/ Swap
    \/ SetBufferLock \/ SetBufferStore \/ LogicWait \/ LogicRate \/ Stop
    \/ JoinRenderThread
    \/ RenderCheck \/ RenderLock \/ RenderCopy \/ RenderUnlock \/ RenderPrint
    \/ RenderMetrics

SpecRoulette == InitRoulette /\ [][NextRoulette]_vars

\* the render thread is copying out of *framebuffer
Copying == render_pc = "copying"

\* the logic thread is clearing or drawing into draw_target
Writing == logic_pc \in {"clearing", "drawing"}

\* C25, in the words of the specification: at every moment a copy is in
\* progress the buffer held by Renderer differs from the rasterizer's
\* current draw target.
C25_CopyNeverFromDrawTarget == Copying => framebuffer /= draw_target

\* C25, as the threads behave: the render thread never copies from a
\* framebuffer while the logic thread is clearing or drawing into that same
\* framebuffer: whenever a copy is in progress while the logic thread clears
\* or draws, the buffer held by Renderer differs from the draw target.
C25_NoCopyWhileDrawingSameBuffer ==
    (Copying /\ Writing) => (buffer_mutex = "render" /\ framebuffer /= draw_target)

C25_Witness ==
    /\ Copying /\ logic_pc = "drawing"
    /\ framebuffer = "B" /\ draw_target = "A" /\ current_step = 3

(***************************************************************************)
(* The one-element boundary of parseNumberList, over the statements of     *)
(* SpecVec.                                                                *)
(***************************************************************************)
\* the numbers parseNumberList has collected at the end of the list: all of
\* them in a delimited list; in a bare list parseArgument holds the first
HeldByNumberList(ps) ==
    IF VecOpen(ps) THEN Len(ListElems(ps)) ELSE Len(ListElems(ps)) - 1

\* the list of the statement holds exactly one element in parseNumberList
\* and a number follows it with no comma
OneElementThenNumber ==
    /\ FirstCall /\ HasList(pieces)
    /\ HeldByNumberList(pieces) = 1
    /\ AfterList(pieces) /= <<>> /\ AfterList(pieces)[1] = SpNum

ListPieces == {N1, Comma, RP, RB, NL}

InitList ==
    \E o \in Opens, ps \in SeqsUpTo(ListPieces, MaxList) : InitWith(<<IdA>> \o o \o ps)

SpecList == InitList /\ [][Next]_vars

\* the lexeme at which the number list of the statement needs a number:
\* right after the opener, or right after the comma that follows the list
DueAt(ps) == IF HasList(ps) THEN ListEnd(ps, ListStart(ps)) + 2 ELSE ListStart(ps)

\* a number is due and what stands there is a comma, a closer, a line break
\* or the end of the input
NumberMissing ==
    /\ FirstCall
    /\ IF HasList(pieces)
       THEN /\ DueAt(pieces) - 1 <= Len(pieces)
            /\ pieces[DueAt(pieces) - 1] = Comma
       ELSE VecOpen(pieces)

TypeOfPiece(ps, i) ==
    IF i > Len(ps) THEN "EndOfFile"
    ELSE IF ps[i] = Comma THEN "Comma"
    ELSE IF ps[i] = RP THEN "RightParen"
    ELSE IF ps[i] = RB THEN "RightBracket"
    ELSE "EndOfLine"

\* C27: in a number list a comma is accepted only directly after a number
\* and must be followed by a number: a comma at the start of a delimited
\* list, two commas in a row, a comma followed by a closer, a line break or
\* the end of the input, and an empty `()` or `[]` each raise
\* UnexpectedToken with the expected description "number", on the token that
\* stands where the number is due.
C27_CommaNeedsNumbersAround ==
    NumberMissing =>
        /\ ret.status = "raised"
        /\ ret.err.kind = "UnexpectedToken"
        /\ ret.err.expected = "number"
        /\ ret.err.token.type = TypeOfPiece(pieces, DueAt(pieces))
        /\ ret.err.token.begin = TokenOffset(pieces, DueAt(pieces))
        /\ ret.val = NoCommand

C27_Witness ==
    /\ NumberMissing
    /\ pieces = <<IdA, LB, N1, Comma, Comma, N1>>
    /\ ret.status = "raised" /\ ret.err.expected = "number"
    /\ ret.err.token = CLIToken("Comma", <<",">>, 5, 6)

(***************************************************************************)
(* The checkpoint after a normal return, over the texts of Spec.           *)
(***************************************************************************)
\* the hook holds no consumed text and its checkpoint is where the stream is
CheckpointAtStream ==
    /\ consumed_chars_ = <<>>
    /\ position_ = stream_position_
    /\ line_number_ = current_line_number_

\* a parseCommand call ends in this step
CallEnds == op' = "parseCommand"

\* the call that ends in this step raises a diagnostic and the call before
\* it returned a Command
RaisesAfterReturn == CallEnds /\ ret.status = "returned" /\ ret'.status = "raised"

\* the buffer the diagnostic quotes starts at or after the place the stream
\* stood at when the Command was returned
QuotesOnlyTheNewStatement ==
    /\ position_' >= stream_position_
    /\ consumed_chars_' = SubSeq(input, position_' + 1, stream_position_')

\* C28: after parseCommand returns a Command normally the consumed buffer is
\* empty and the checkpoint position and line equal the current stream
\* position and line, so a diagnostic raised while parsing the next
\* statement contains no text of the returned statement.
C28_ReturnLeavesCleanCheckpoint ==
    [][/\ (CallEnds /\ ret'.status = "returned") => CheckpointAtStream'
       /\ RaisesAfterReturn => QuotesOnlyTheNewStatement]_vars

C28_Witness ==
    /\ op = "parseCommand" /\ ret.status = "raised"
    /\ pieces = <<IdA, NL, Unk>>
    /\ commands = <<Command(<<"a">>, <<>>)>>
    /\ pre.pos = 3 /\ position_ = 3
    /\ consumed_chars_ = <<"@">>

(***************************************************************************)
(* Line numbers of the Stream Hook, over the call sequences of SpecHook.   *)
(***************************************************************************)
getLineNumber == line_number_

\* the number of line breaks among the first n characters of the input
LineBreaksBefore(n) == Cardinality({i \in 1..n : input[i] = "\n"})

\* C29: after any sequence of hook operations the current line number is 1
\* plus the number of line breaks among the characters net-consumed so far
\* (the input up to the stream position: a consumed line break adds one, an
\* unget of a line break takes one away), and getLineNumber is 1 plus the
\* number of line breaks in the input before the checkpoint position.
C29_LineNumbers ==
    /\ current_line_number_ = 1 + LineBreaksBefore(stream_position_)
    /\ getLineNumber = 1 + LineBreaksBefore(position_)

C29_Witness ==
    /\ op = "unget" /\ ret.status = "returned"
    /\ input = <<"\n", "a", "\n">>
    /\ stream_position_ = 2 /\ position_ = 1
    /\ current_line_number_ = 2 /\ line_number_ = 2
    /\ gets = 3

(***************************************************************************)
(* Token spans, over the call sequences of SpecLexer.  token_log holds the *)
(* tokens nextToken() has returned, in order.                              *)
(***************************************************************************)
BlankChars == {" ", "\t", "\r"}

\* the characters between the offsets a and b of the input are blanks
BlankBetween(a, b) == \A i \in (a + 1)..b : input[i] \in BlankChars

\* the raw characters of the span are the lexeme of the token: the value
\* itself, a quoted literal (closed, or cut by the end of input), or a whole
\* run of number characters
CoversLexeme(tok) ==
    /\ Len(RawText(tok)) = tok.end - tok.begin
    /\ tok.end > tok.begin
    /\ CASE tok.type = "String" ->
              /\ input[tok.begin + 1] = "\""
              /\ \/ tok.end = Len(input)
                 \/ tok.end - tok.begin >= 2 /\ input[tok.end] = "\""
         [] tok.type \in {"Integer", "Float"} ->
              /\ \A i \in (tok.begin + 1)..tok.end : isNumberChar(input[i])
              /\ tok.end = Len(input) \/ ~isNumberChar(input[tok.end + 1])
         [] OTHER -> tok.value = RawText(tok)

\* C30: the tokens successive nextToken calls return have begin <= end, each
\* begins at or after the end of the one before (only blanks lie between
\* two spans), no span ends beyond the hook's stream position, and for
\* every token but EndOfFile end - begin is the number of raw characters the
\* token covers.
C30_TokenSpans ==
    \A i \in 1..Len(token_log) :
        /\ 0 <= token_log[i].begin
        /\ token_log[i].begin <= token_log[i].end
        /\ token_log[i].end <= stream_position_
        /\ stream_position_ <= Len(input)
        /\ IF i = 1 THEN BlankBetween(0, token_log[i].begin)
           ELSE /\ token_log[i].begin >= token_log[i - 1].end
                /\ BlankBetween(token_log[i - 1].end, token_log[i].begin)
        /\ token_log[i].type /= "EndOfFile" => CoversLexeme(token_log[i])

C30_Witness ==
    /\ op = "nextToken" /\ ret.status = "returned"
    /\ pieces = <<IdA, Str, Flt>>
    /\ Len(token_log) = 4
    /\ token_log[2] = CLIToken("String", <<"s">>, 2, 5)
    /\ token_log[3].type = "Float" /\ token_log[3].begin = 5 /\ token_log[3].end = 7
    /\ token_log[4] = CLIToken("EndOfFile", <<>>, 8, 8)

(***************************************************************************)
(* getSourceSnippetReport on any span: the hook is driven by any sequence  *)
(* of get, unget and clearConsumedTokens, and the reporter is handed any   *)
(* span begin, end in 0..MaxSpan, in order or not, inside the buffer or    *)
(* not.                                                                    *)
(***************************************************************************)
\* std::string::substr(pos, ...) throws std::out_of_range when pos > size()
substrThrows(str, pos) == pos < 0 \/ pos > Len(str)

\* one of the three substr calls of the snippet throws
snippetThrows(s, hb, he) ==
    /\ hb <= he
    /\ \/ substrThrows(s.consumed_chars_, 0)
       \/ substrThrows(s.consumed_chars_, hb)
       \/ substrThrows(s.consumed_chars_, he)

\* the call getSourceSnippetReport(begin, end) has ended
SnippetEnds(s, begin, end, hb, he) ==
    /\ op' = "getSourceSnippetReport"
    /\ ret' = [status |-> IF snippetThrows(s, hb, he) THEN "raised" ELSE "returned",
               val |-> IF snippetThrows(s, hb, he) THEN <<>> ELSE Highlighted(s, hb, he),
               err |-> [NoError EXCEPT !.token = CLIToken("Unknown", <<>>, begin, end)]]
    /\ UNCHANGED <<pieces, input, raw_pos, failbit, stream_position_, consumed_chars_,
                   position_, line_number_, current_line_number_, peeked_token_,
                   color_output_, show_source_, more, pre, commands, token_log, gets,
                   ungets, slot_at_reset>>
    /\ UNCHANGED <<mainVars, libVars>>

GetSourceSnippetReport ==
    \E begin \in 0..MaxSpan, end \in 0..MaxSpan :
        SnippetEnds(Cur, begin, end, highlight_begin(Cur, begin), highlight_end(Cur, end))

NextSnippet == Get \/ Unget \/ ClearConsumedTokens \/ GetSourceSnippetReport

SpecSnippet == InitHook /\ [][NextSnippet]_vars

Snipped == op = "getSourceSnippetReport"

\* C31: building the snippet never raises: for any token span and any
\* buffer, whenever a snippet is produced the bounds that slice the buffer
\* satisfy 0 <= highlight_begin <= highlight_end <= buffer length, and an
\* out-of-order range gives the empty snippet.
C31_SnippetNeverRaises ==
    Snipped =>
        /\ ret.status = "returned"
        /\ ret.val /= <<>> =>
              /\ 0 <= highlight_begin(Cur, ret.err.token.begin)
              /\ highlight_begin(Cur, ret.err.token.begin)
                    <= highlight_end(Cur, ret.err.token.end)
              /\ highlight_end(Cur, ret.err.token.end) <= Len(consumed_chars_)
        /\ highlight_begin(Cur, ret.err.token.begin)
              > highlight_end(Cur, ret.err.token.end) => ret.val = <<>>

\* the span lies wholly before the checkpoint: the range is out of order
C31_Witness ==
    /\ Snipped /\ ret.status = "returned"
    /\ position_ = 3 /\ consumed_chars_ = <<>>
    /\ ret.err.token.begin = 0 /\ ret.err.token.end = 1
    /\ highlight_end(Cur, ret.err.token.end) < 0
    /\ ret.val = <<>>

(***************************************************************************)
(* Texts whose last statement has no line break after it: up to MaxBefore  *)
(* whole lines, then nothing, blanks, or a statement cut by the end of the *)
(* input.                                                                  *)
(***************************************************************************)
LastNone == <<>>
LastBlank == <<" ">>
LastName == <<"a">>
LastArgs == <<"a", " ", "1", " ", "b">>
LastVec == <<"b", " ", "1", ",", "2">>
LastBlock == <<"a", "{", "\n", "b", "}">>

LastForms == {LastNone, LastBlank, LastName, LastArgs, LastVec, LastBlock}
LastStatements == {LastName, LastArgs, LastVec, LastBlock}

InitLast ==
    \E ls \in SeqsUpTo(LineForms, MaxBefore), last \in LastForms :
        InitWith(Append(ls, last))

SpecLast == InitLast /\ [][Next]_vars

CommandOfLast(l) ==
    CASE l = LastName -> Command(<<"a">>, <<>>)
      [] l = LastArgs -> Command(<<"a">>, <<IntegerArg(1), IdentifierArg(<<"b">>)>>)
      [] l = LastVec -> Command(<<"b">>, <<IntegerVectorArg(<<1, 2>>)>>)
      [] l = LastBlock -> Command(<<"a">>, <<IdentifierArg(<<"b">>)>>)

\* the Commands of the statements of the text, in order
StatementsIn(ps) ==
    LET lines == StatementsOf(SubSeq(ps, 1, Len(ps) - 1))
        first == [i \in 1..Len(lines) |-> CommandOfLine(lines[i])] IN
    IF ps[Len(ps)] \in LastStatements
    THEN Append(first, CommandOfLast(ps[Len(ps)])) ELSE first

\* C32: a Command returned by parseCommand has an empty name exactly when
\* the end of the input was reached before a command name was read (every
\* statement of the text has been returned by an earlier call), and then its
\* argument list is empty; a last statement with no line break after it is
\* returned as a Command with its name and all its arguments.
C32_EmptyNameIffEndOfInput ==
    /\ ret.status \in {"none", "returned"}
    /\ IsPrefix(commands, StatementsIn(pieces))
    /\ op = "parseCommand" =>
          IF ret.val.name = <<>>
          THEN /\ ret.val.arguments = <<>>
               /\ commands = StatementsIn(pieces)
               /\ stream_position_ = Len(input)
          ELSE /\ commands /= <<>>
               /\ ret.val = commands[Len(commands)]

C32_Witness ==
    /\ op = "parseCommand" /\ ret.status = "returned"
    /\ pieces = <<StmtB, CmtLine, LastVec>>
    /\ ret.val = Command(<<"b">>, <<IntegerVectorArg(<<1, 2>>)>>)
    /\ Len(commands) = 2
    /\ stream_position_ = Len(input)

(***************************************************************************)
(* The token that starts a statement, over the texts of Spec.              *)
(***************************************************************************)
\* lexeme k is the first thing the call meets: only blanks and line breaks
\* lie between the place the call started at and the lexeme
MeetsFirst(k) ==
    /\ k \in 1..Len(pieces)
    /\ OffsetOf(pieces, k) >= pre.pos
    /\ \A i \in (pre.pos + 1)..OffsetOf(pieces, k) : input[i] \in {" ", "\n"}
    /\ pieces[k] \notin {NL, Cmt}

\* the lexemes whose token is a String, a number, a parenthesis, a bracket,
\* a curly brace or a comma
NotAName == {Str, Int1, Flt, LP, RP, LB, RB, LC, RC, Comma}

TypeOfLexeme(f) ==
    CASE f = Str -> "String" [] f = Int1 -> "Integer" [] f = Flt -> "Float"
      [] f = LP -> "LeftParen" [] f = RP -> "RightParen"
      [] f = LB -> "LeftBracket" [] f = RB -> "RightBracket"
      [] f = LC -> "LeftCurly" [] f = RC -> "RightCurly"
      [] f = Comma -> "Comma" [] f = IdA -> "Identifier"
      [] f = NL -> "EndOfLine" [] f = Cmt -> "Comment" [] OTHER -> "Unknown"

\* C33: before a command name has been read, a String, Integer, Float,
\* parenthesis, bracket, curly brace or Comma token raises UnexpectedToken
\* expecting Identifier, on that token; a call that returns a named Command
\* met an Identifier first.
C33_OnlyIdentifierStartsStatement ==
    op = "parseCommand" =>
        \A k \in 1..Len(pieces) :
            MeetsFirst(k) =>
                /\ pieces[k] \in NotAName =>
                      /\ ret.status = "raised"
                      /\ ret.err.kind = "UnexpectedToken"
                      /\ ret.err.expected = "Identifier"
                      /\ ret.err.token.type = TypeOfLexeme(pieces[k])
                      /\ ret.err.token.begin = OffsetOf(pieces, k)
                      /\ ret.val = NoCommand
                /\ (ret.status = "returned" /\ ret.val.name /= <<>>) => pieces[k] = IdA

C33_Witness ==
    /\ op = "parseCommand" /\ ret.status = "raised"
    /\ pieces = <<NL, Str, LC>>
    /\ MeetsFirst(3) /\ pre.pos = 4
    /\ ret.err.expected = "Identifier"
    /\ ret.err.token = CLIToken("LeftCurly", <<"{">>, 4, 5)

(***************************************************************************)
(* Internal errors, over the texts of Spec.                                *)
(***************************************************************************)
\* the last call ended in std::runtime_error("Cannot unget ...") or
\* std::runtime_error("No way to reach here ...")
InternalError ==
    /\ ret.status = "raised"
    /\ ret.err.kind \in {"CannotUnget", "NoWayToReachHere"}

\* C34: no input makes parseCommand reach an internal-error path: the
\* hook's "Cannot unget" and the parser's "No way to reach here" are never
\* raised; every raise of parseCommand is a diagnostic of the reporter.
C34_NoInternalError ==
    /\ ~InternalError
    /\ (op = "parseCommand" /\ ret.status = "raised") => Diagnosed

\* parseArgument and parseVector have run, the lexer has ungot characters,
\* and the call ends in a diagnostic
C34_Witness ==
    /\ op = "parseCommand" /\ Diagnosed
    /\ pieces = <<IdA, LB, RP>>
    /\ ungets > 0
    /\ ret.err.expected = "number"

(***************************************************************************)
(* The lookahead slot at the exits of parseCommand, over the texts of Spec. *)
(***************************************************************************)
\* the slot is empty or holds the EndOfFile token
SlotEmptyOrEndOfFile ==
    \A i \in 1..Len(peeked_token_) : peeked_token_[i].type = "EndOfFile"

\* C35: at every exit of parseCommand, by return or by raise, the lookahead
\* slot is empty or holds an EndOfFile token, and no other token was in the
\* slot at any checkpoint reset: no token of a later statement is cached
\* across a parseCommand call or across a reset.
C35_NoTokenCachedAcrossCalls ==
    op \in {"parseCommand", "hasMoreCommands"} =>
        /\ SlotEmptyOrEndOfFile
        /\ slot_at_reset \subseteq {"EndOfFile"}
        /\ Raised => peeked_token_ = <<>>

\* a statement followed by another on the next line has been returned, and
\* a later call has met the end of the input
C35_Witness ==
    /\ op = "parseCommand" /\ ret.status = "returned"
    /\ pieces = <<IdA, NL, IdA>>
    /\ Len(commands) = 2
    /\ peeked_token_ = <<CLIToken("EndOfFile", <<>>, 5, 5)>>
    /\ slot_at_reset = {"EndOfFile"}

(***************************************************************************)
(* PixelMatrix (lib/PixelMatrix/PixelMatrix.h): two pixels per character   *)
(* cell, drawn with half-block glyphs.                                     *)
(***************************************************************************)
MaxRows == 4        \* rows of a PixelMatrix (3: one pair and an odd last row)
MaxCols == 2        \* columns of a PixelMatrix

\* row >> 1 << 1: the top row of the pair row lies in
TopRowOf(row) == (row \div 2) * 2

\* display_char(row, col): the index of the glyph of that pixel
display_char(row, col) == <<row \div 2, col>>

\* the test "that half is enabled" of enable() and disable()
half_enabled(mode) == mode \in {"Foreground", "Background"}

enable_bottomOfNone_topKept(pm, row, col) ==
    [matrix_ |-> [pm.matrix_ EXCEPT ![<<TopRowOf(row) + 1, col>>] = "Foreground"],
     display_char_ |-> [pm.display_char_ EXCEPT ![display_char(row, col)] = PixelLowerHalf]]

\* PixelMatrix::enable, bottom half of a pair none of whose halves is enabled
enable_bottomOfNone(pm, row, col) ==
    [matrix_ |-> [pm.matrix_ EXCEPT ![<<TopRowOf(row), col>>] = "DefaultBackground",
                                    ![<<TopRowOf(row) + 1, col>>] = "Foreground"],
     display_char_ |-> [pm.display_char_ EXCEPT ![display_char(row, col)] = PixelLowerHalf]]

\* PixelMatrix::enable on the matrix pm = [matrix_, display_char_]
enable(pm, row, col) ==
    IF row = rows_ - 1 /\ rows_ % 2 = 1
    THEN IF pm.matrix_[<<TopRowOf(row), col>>] = "Foreground"
         THEN pm
         ELSE [matrix_ |-> [pm.matrix_ EXCEPT ![<<TopRowOf(row), col>>] = "Foreground"],
               display_char_ |-> [pm.display_char_ EXCEPT
                                     ![display_char(row, col)] = PixelUpperHalf]]
    ELSE LET th_enabled == half_enabled(pm.matrix_[<<TopRowOf(row), col>>])
             bh_enabled == half_enabled(pm.matrix_[<<TopRowOf(row) + 1, col>>])
         IN  IF row % 2 = 0
             THEN IF th_enabled THEN pm
                  ELSE IF bh_enabled
                  THEN [matrix_ |-> [pm.matrix_ EXCEPT
                                        ![<<TopRowOf(row), col>>] = "Foreground",
                                        ![<<TopRowOf(row) + 1, col>>] = "Background"],
                        display_char_ |-> [pm.display_char_ EXCEPT
                                              ![display_char(row, col)] = PixelUpperHalf]]
                  ELSE [matrix_ |-> [pm.matrix_ EXCEPT
                                        ![<<TopRowOf(row), col>>] = "Foreground"],
                        display_char_ |-> [pm.display_char_ EXCEPT
                                              ![display_char(row, col)] = PixelUpperHalf]]
             ELSE IF bh_enabled THEN pm
                  ELSE IF th_enabled
                  THEN [pm EXCEPT !.matrix_[<<TopRowOf(row) + 1, col>>] = "Background"]
                  ELSE enable_bottomOfNone(pm, row, col)

\* PixelMatrix::disable on the matrix pm = [matrix_, display_char_]
disable(pm, row, col) ==
    IF row = rows_ - 1 /\ rows_ % 2 = 1
    THEN IF pm.matrix_[<<TopRowOf(row), col>>] # "Foreground"
         THEN pm
         ELSE [matrix_ |-> [pm.matrix_ EXCEPT
                               ![<<TopRowOf(row), col>>] = "DefaultForeground"],
               display_char_ |-> [pm.display_char_ EXCEPT
                                     ![display_char(row, col)] = PixelSpace]]
    ELSE LET th_enabled == half_enabled(pm.matrix_[<<TopRowOf(row), col>>])
             bh_enabled == half_enabled(pm.matrix_[<<TopRowOf(row) + 1, col>>])
         IN  IF row % 2 = 0
             THEN IF ~th_enabled THEN pm
                  ELSE IF bh_enabled
                  THEN [matrix_ |-> [pm.matrix_ EXCEPT
                                        ![<<TopRowOf(row), col>>] = "DefaultBackground",
                                        ![<<TopRowOf(row) + 1, col>>] = "Foreground"],
                        display_char_ |-> [pm.display_char_ EXCEPT
                                              ![display_char(row, col)] = PixelLowerHalf]]
                  ELSE [matrix_ |-> [pm.matrix_ EXCEPT
                                        ![<<TopRowOf(row), col>>] = "DefaultForeground"],
                        display_char_ |-> [pm.display_char_ EXCEPT
                                              ![display_char(row, col)] = PixelSpace]]
             ELSE IF ~bh_enabled THEN pm
                  ELSE IF th_enabled
                  THEN [pm EXCEPT
                           !.matrix_[<<TopRowOf(row) + 1, col>>] = "DefaultBackground"]
                  ELSE [matrix_ |-> [pm.matrix_ EXCEPT
                                        ![<<TopRowOf(row), col>>] = "DefaultForeground",
                                        ![<<TopRowOf(row) + 1, col>>] = "DefaultBackground"],
                        display_char_ |-> [pm.display_char_ EXCEPT
                                              ![display_char(row, col)] = PixelSpace]]

\* a call pixel_matrix.enable(row, col) with the pixel inside the matrix
Enable ==
    \E row \in 0..(rows_ - 1), col \in 0..(cols_ - 1) :
        LET pm == enable([matrix_ |-> matrix_, display_char_ |-> display_char_], row, col)
        IN  /\ matrix_' = pm.matrix_
            /\ display_char_' = pm.display_char_
            /\ pixels_on' = pixels_on \cup {<<row, col>>}
            /\ UNCHANGED <<rows_, cols_, parserVars, mainVars, argVars>>

\* a call pixel_matrix.disable(row, col) with the pixel inside the matrix
Disable ==
    \E row \in 0..(rows_ - 1), col \in 0..(cols_ - 1) :
        LET pm == disable([matrix_ |-> matrix_, display_char_ |-> display_char_], row, col)
        IN  /\ matrix_' = pm.matrix_
            /\ display_char_' = pm.display_char_
            /\ pixels_on' = pixels_on \ {<<row, col>>}
            /\ UNCHANGED <<rows_, cols_, parserVars, mainVars, argVars>>

InitPixel ==
    \E rows \in 1..MaxRows, cols \in 1..MaxCols :
        /\ InitThreads(1)
        /\ InitObjects(<<>>)
        /\ color_output_ = TRUE
        /\ show_source_ = TRUE
        /\ PixelMatrix(rows, cols)
        /\ NoArgParser

NextPixel == Enable \/ Disable

SpecPixel == InitPixel /\ [][NextPixel]_vars

\* what a pair of rows shows at column col: <<glyph, upper cell mode, lower cell mode>>
PairShown(k, col) ==
    <<display_char_[<<k, col>>], matrix_[<<2 * k, col>>], matrix_[<<2 * k + 1, col>>]>>

\* the encoding of the enabled pixels of one pair
PairEncoding(top, bottom) ==
    IF top /\ bottom THEN <<PixelUpperHalf, "Foreground", "Background">>
    ELSE IF top THEN <<PixelUpperHalf, "Foreground", "DefaultBackground">>
    ELSE IF bottom THEN <<PixelLowerHalf, "DefaultBackground", "Foreground">>
    ELSE <<PixelSpace, "DefaultForeground", "DefaultBackground">>

\* C36: for every column and every pair of rows (2k, 2k+1) the glyph and the
\* modes of the two cells encode exactly which of the two pixels are enabled
\* (none: space, DefaultForeground, DefaultBackground; top only: upper half
\* block, Foreground, DefaultBackground; bottom only: lower half block,
\* DefaultBackground, Foreground; both: upper half block, Foreground,
\* Background), so that no call changes whether the other pixel of the pair is
\* enabled.
C36_PairEncodesEnabledPixels ==
    \A k \in 0..((rows_ \div 2) - 1), col \in 0..(cols_ - 1) :
        PairShown(k, col) = PairEncoding(<<2 * k, col>> \in pixels_on,
                                         <<2 * k + 1, col>> \in pixels_on)

C36_Witness ==
    /\ rows_ = 3
    /\ cols_ = 2
    /\ pixels_on = {<<0, 0>>, <<1, 0>>, <<1, 1>>, <<2, 1>>}
    /\ PairShown(0, 0) = <<PixelUpperHalf, "Foreground", "Background">>
    /\ PairShown(0, 1) = <<PixelLowerHalf, "DefaultBackground", "Foreground">>

(***************************************************************************)
(* ArgParser (lib/ArgCLITool/ArgParser.hpp): the declared arguments, and   *)
(* parse(argc, argv) one iteration of its scan loop at a time.  Names and  *)
(* values are sequences of characters; argv holds argv[1..argc-1], so that *)
(* argv[i] of the code is argv[i] here.                                    *)
(***************************************************************************)
MaxArgv == 3        \* elements of argv after the program name

isalpha(c) == c \in UpperAlpha \cup LowerAlpha

isPositional(name) == Len(name) >= 1 /\ name[1] # "-"
isShortName(name) == Len(name) >= 2 /\ name[1] = "-" /\ name[2] # "-" /\ isalpha(name[2])
isLongName(name) == Len(name) >= 3 /\ name[1] = "-" /\ name[2] = "-" /\ isalpha(name[3])

\* ArgParser::add(name), for a valid name not declared before
add(name) ==
    [position_name |-> IF isPositional(name) THEN name ELSE <<>>,
     short_name |-> IF isShortName(name) THEN name ELSE <<>>,
     long_name |-> IF isLongName(name) THEN name ELSE <<>>,
     min_nvalues |-> IF isPositional(name) THEN 1 ELSE 0,
     max_nvalues |-> IF isPositional(name) THEN 1 ELSE 0,
     default_values |-> <<>>]

\* ArgParser::add(short_name, long_name), for valid names not declared before
addBoth(short_name, long_name) ==
    [position_name |-> <<>>, short_name |-> short_name, long_name |-> long_name,
     min_nvalues |-> 0, max_nvalues |-> 0, default_values |-> <<>>]

\* ArgumentSetter::nvalues(min, max), for the pairs it does not reject
nvalues(arg, min, max) ==
    LET max1 == IF arg.position_name # <<>> /\ min = 0 /\ max = -1 THEN 1 ELSE max
    IN  [arg EXCEPT !.min_nvalues = min,
                    !.max_nvalues = IF max1 = -1 THEN min ELSE max1]

\* ArgumentSetter::defaultValues
defaultValues(arg, default_values) == [arg EXCEPT !.default_values = default_values]

\* arguments_.find(name) on the declared arguments: <<>> or <<the argument>>
RECURSIVE findIn(_, _, _)
findIn(list, k, name) ==
    IF k > Len(list) THEN <<>>
    ELSE IF name # <<>> /\ name \in {list[k].position_name, list[k].short_name,
                                     list[k].long_name}
    THEN <<list[k]>>
    ELSE findIn(list, k + 1, name)

find(p, name) == findIn(p.positional_list_ \o p.option_list_, 1, name)

\* Args::has
has(a, name) == name \in DOMAIN a.arguments_

\* Args::operator[]: the ParsedArgument a name is mapped to
Retrieved(a, name) == a.argument_list_[a.arguments_[name]]

\* Args::set(name, values, parsed)
set(a, name, values, parsed) ==
    IF ~has(a, name)
    THEN [arguments_ |-> (name :> (Len(a.argument_list_) + 1)) @@ a.arguments_,
          argument_list_ |-> Append(a.argument_list_,
                                    [name |-> name, values |-> values, parsed |-> parsed])]
    ELSE [a EXCEPT !.argument_list_[a.arguments_[name]] =
                       [name |-> name, values |-> values, parsed |-> parsed]]

\* Args::set(short_name, long_name, values, parsed) throws: both names are
\* mapped, to different arguments
setBothThrows(a, short_name, long_name) ==
    /\ has(a, short_name)
    /\ has(a, long_name)
    /\ a.arguments_[short_name] # a.arguments_[long_name]

setBoth_shortOnly(a, short_name, long_name, values, parsed) ==
    set(a, short_name, values, parsed)

\* Args::set(short_name, long_name, values, parsed) when it does not throw
setBoth(a, short_name, long_name, values, parsed) ==
    LET new == [name |-> short_name, values |-> values, parsed |-> parsed]
    IN  IF ~has(a, short_name) /\ ~has(a, long_name)
        THEN [arguments_ |-> (short_name :> (Len(a.argument_list_) + 1)) @@
                             (long_name :> (Len(a.argument_list_) + 1)) @@ a.arguments_,
              argument_list_ |-> Append(a.argument_list_, new)]
        ELSE IF has(a, short_name) /\ ~has(a, long_name)
        THEN [arguments_ |-> (long_name :> a.arguments_[short_name]) @@ a.arguments_,
              argument_list_ |-> [a.argument_list_ EXCEPT ![a.arguments_[short_name]] = new]]
        ELSE IF ~has(a, short_name)
        THEN [arguments_ |-> (short_name :> a.arguments_[long_name]) @@ a.arguments_,
              argument_list_ |-> [a.argument_list_ EXCEPT ![a.arguments_[long_name]] = new]]
        ELSE [a EXCEPT !.argument_list_[a.arguments_[short_name]] = new]

NoArgs == [arguments_ |-> <<>>, argument_list_ |-> <<>>]

argc == Len(argv) + 1

isOptionName(name) == isShortName(name) \/ isLongName(name)

\* the values parse collects from argv[j] on: up to the end of argv, the next
\* option name, or room values (room < 0: the variadic case, no limit)
RECURSIVE valuesFrom(_, _, _)
valuesFrom(av, j, room) ==
    IF room = 0 \/ j > Len(av) \/ isOptionName(av[j]) THEN <<>>
    ELSE <<av[j]>> \o valuesFrom(av, j + 1, IF room < 0 THEN room ELSE room - 1)

\* TLC's integers are 32 bits wide: size_t arithmetic is modelled modulo 2^30
SizeModulus == 1073741824

skipParsedValues_keepsNameSkip(i, size) == IF size = 0 THEN i ELSE i + size - 1

\* `i += values.size() - 1`: values.size() - 1 is computed in size_t (it wraps
\* for no value) and so is the sum, which is then converted back to int
skipParsedValues(i, size) ==
    LET sum == ((i % SizeModulus) + ((size - 1) % SizeModulus)) % SizeModulus
    IN  IF sum >= SizeModulus \div 2 THEN sum - SizeModulus ELSE sum

ParseThrows(what) ==
    /\ parse_pc' = "raised"
    /\ thrown' = what
    /\ UNCHANGED <<arg_parser, argv, scan_i, positional_count, parsed_args, uses>>

HelpName == {<<"-", "h">>, <<"-", "-", "h", "e", "l", "p">>}

\* parse up to the scan loop: the "-h"/"--help" hotfix
BeginParse ==
    /\ parse_pc = "start"
    /\ IF /\ \E name \in HelpName : find(arg_parser, name) # <<>>
          /\ \E k \in 1..Len(argv) : argv[k] \in HelpName
       THEN /\ parsed_args' = setBoth(NoArgs, <<"-", "h">>,
                                      <<"-", "-", "h", "e", "l", "p">>, <<>>, TRUE)
            /\ parse_pc' = "returned"
            /\ UNCHANGED <<scan_i, positional_count>>
       ELSE /\ parsed_args' = NoArgs
            /\ parse_pc' = "scan"
            /\ scan_i' = 1
            /\ positional_count' = 0
    /\ UNCHANGED <<arg_parser, argv, thrown, uses, parserVars, mainVars, pixelVars>>

\* the ghost record of one iteration: argv[from] as role, the n elements after
\* the name (or from argv[from] on, for a positional argument) as its values
Consumed(us, from, is_option, n) ==
    [k \in DOMAIN us |->
        IF is_option /\ k = from THEN Append(us[k], "name")
        ELSE IF is_option /\ k > from /\ k <= from + n THEN Append(us[k], "value")
        ELSE IF ~is_option /\ k >= from /\ k < from + n THEN Append(us[k], "positional")
        ELSE us[k]]

\* one iteration of `for (int i = 1; i < argc; ++i)`, with its `++i`
ScanArgument ==
    /\ parse_pc = "scan"
    /\ scan_i < argc
    /\ LET input_arg == argv[scan_i]
           is_option == isOptionName(input_arg)
           found == find(arg_parser, input_arg)
       IN  IF is_option /\ found = <<>> THEN ParseThrows("Unknown argument")
           ELSE IF ~is_option /\ positional_count >= Len(arg_parser.positional_list_)
           THEN ParseThrows("Too many positional arguments")
           ELSE LET arg == IF is_option THEN found[1]
                           ELSE arg_parser.positional_list_[positional_count + 1]
                    first == IF is_option THEN scan_i + 1 ELSE scan_i
                    values == valuesFrom(argv, first,
                                         IF arg.min_nvalues = -1 THEN -1
                                         ELSE IF arg.max_nvalues < 0 THEN 0
                                         ELSE arg.max_nvalues)
                    another_name == IF isShortName(input_arg) THEN arg.long_name
                                    ELSE arg.short_name
               IN  IF arg.min_nvalues # -1 /\ Len(values) < arg.min_nvalues
                   THEN ParseThrows("Not enough values")
                   ELSE IF is_option /\ another_name # <<>>
                           /\ setBothThrows(parsed_args, arg.short_name, arg.long_name)
                   THEN ParseThrows("Short name and long name are mapped to different arguments")
                   ELSE /\ parsed_args' =
                              IF ~is_option
                              THEN set(parsed_args, arg.position_name, values, TRUE)
                              ELSE IF another_name = <<>>
                              THEN set(parsed_args, input_arg, values, TRUE)
                              ELSE setBoth(parsed_args, arg.short_name, arg.long_name,
                                           values, TRUE)
                        /\ scan_i' = skipParsedValues(first, Len(values)) + 1
                        /\ positional_count' = IF is_option THEN positional_count
                                               ELSE positional_count + 1
                        /\ uses' = Consumed(uses, scan_i, is_option, Len(values))
                        /\ UNCHANGED <<arg_parser, argv, parse_pc, thrown>>
    /\ UNCHANGED <<parserVars, mainVars, pixelVars>>

\* the loop adding the default values of the positional arguments not parsed
RECURSIVE positionalDefaults(_, _, _)
positionalDefaults(a, list, k) ==
    IF k > Len(list) THEN a
    ELSE IF has(a, list[k].position_name) THEN positionalDefaults(a, list, k + 1)
    ELSE positionalDefaults(set(a, list[k].position_name, list[k].default_values,
                                list[k].default_values # <<>>), list, k + 1)

\* the loop adding the default values of the options not parsed
RECURSIVE optionDefaults(_, _, _)
optionDefaults(a, list, k) ==
    IF k > Len(list) THEN a
    ELSE IF has(a, list[k].short_name) \/ has(a, list[k].long_name)
    THEN optionDefaults(a, list, k + 1)
    ELSE IF list[k].short_name # <<>> /\ list[k].long_name # <<>>
    THEN optionDefaults(setBoth(a, list[k].short_name, list[k].long_name,
                                list[k].default_values, list[k].default_values # <<>>),
                        list, k + 1)
    ELSE optionDefaults(set(a, IF list[k].short_name # <<>> THEN list[k].short_name
                               ELSE list[k].long_name,
                            list[k].default_values, list[k].default_values # <<>>),
                        list, k + 1)

\* parse after the scan loop: the positional arguments left, the defaults, return
FinishParse ==
    /\ parse_pc = "scan"
    /\ scan_i >= argc
    /\ IF \E k \in (positional_count + 1)..Len(arg_parser.positional_list_) :
              arg_parser.positional_list_[k].min_nvalues > 0
       THEN ParseThrows("Not enough values")
       ELSE /\ parsed_args' =
                  optionDefaults(positionalDefaults(parsed_args,
                                                    arg_parser.positional_list_, 1),
                                 arg_parser.option_list_, 1)
            /\ parse_pc' = "returned"
            /\ UNCHANGED <<arg_parser, argv, scan_i, positional_count, thrown, uses>>
    /\ UNCHANGED <<parserVars, mainVars, pixelVars>>

\* the declarations and the command lines of the family checked
PlainValue == <<"x">>
ShortNum == <<"-", "n">>
LongNum == <<"-", "-", "n", "u", "m">>
ShortVerbose == <<"-", "v">>
LongAll == <<"-", "-", "a", "l", "l">>
Negative == <<"-", "5">>
Undeclared == <<"-", "z">>

Source == add(<<"s", "r", "c">>)
Target == defaultValues(nvalues(add(<<"d", "s", "t">>), 0, -1), <<PlainValue>>)
Extra == nvalues(add(<<"e", "x">>), 0, -1)
Rest == nvalues(add(<<"r", "e", "s", "t">>), -1, -1)
Num == defaultValues(nvalues(addBoth(ShortNum, LongNum), 1, -1), <<<<"5">>>>)
Verbose == add(ShortVerbose)
All == nvalues(add(LongAll), -1, -1)
Help == addBoth(<<"-", "h">>, <<"-", "-", "h", "e", "l", "p">>)

PositionalForms == {<<Source>>, <<Source, Target>>, <<Extra, Rest>>}
OptionForms == {<<Num, Verbose, All>>, <<Num, Verbose, All, Help>>}
ArgvElements == {PlainValue, ShortNum, LongNum, ShortVerbose, LongAll, Negative,
                 Undeclared, <<"-", "h">>}

InitArgs ==
    /\ InitThreads(1)
    /\ InitObjects(<<>>)
    /\ color_output_ = TRUE
    /\ show_source_ = TRUE
    /\ PixelMatrix(1, 1)
    /\ \E ps \in PositionalForms, os \in OptionForms :
           arg_parser = [positional_list_ |-> ps, option_list_ |-> os]
    /\ argv \in SeqsUpTo(ArgvElements, MaxArgv)
    /\ scan_i = 1
    /\ positional_count = 0
    /\ parsed_args = NoArgs
    /\ parse_pc = "start"
    /\ thrown = ""
    /\ uses = [k \in 1..Len(argv) |-> <<>>]

NextArgs == BeginParse \/ ScanArgument \/ FinishParse

SpecArgs == InitArgs /\ [][NextArgs]_vars

\* parse is one call: once entered it runs to its return or its throw
SpecArgsFair == SpecArgs /\ WF_vars(NextArgs)

\* the names an argument was declared under
DeclaredNames(arg) == {arg.position_name, arg.short_name, arg.long_name} \ {<<>>}

DeclaredArguments ==
    {arg_parser.positional_list_[k] : k \in 1..Len(arg_parser.positional_list_)}
        \cup {arg_parser.option_list_[k] : k \in 1..Len(arg_parser.option_list_)}

\* the argument was given on the command line: one of its names was read as an
\* option name, or (the k-th positional argument) k positional runs were read
OnCommandLine(arg) ==
    \/ \E k \in 1..Len(argv) :
           /\ argv[k] \in DeclaredNames(arg)
           /\ \E u \in 1..Len(uses[k]) : uses[k][u] = "name"
    \/ \E k \in 1..positional_count : arg_parser.positional_list_[k] = arg

\* the command line contains a declared help flag
HelpGiven ==
    /\ \E name \in HelpName : find(arg_parser, name) # <<>>
    /\ \E k \in 1..Len(argv) : argv[k] \in HelpName

\* C37: after parse succeeds on a command line with no declared help flag,
\* every declared argument is retrievable under each of its declared names,
\* the short and the long name of an argument give the same argument (the
\* same values), and an argument that was not on the command line holds its
\* default values and is marked parsed exactly when it has default values.
C37_DeclaredArgumentsRetrievable ==
    (parse_pc = "returned" /\ ~HelpGiven) =>
        \A arg \in DeclaredArguments :
            /\ \A name \in DeclaredNames(arg) : has(parsed_args, name)
            /\ \A n1, n2 \in DeclaredNames(arg) :
                   /\ parsed_args.arguments_[n1] = parsed_args.arguments_[n2]
                   /\ Retrieved(parsed_args, n1).values = Retrieved(parsed_args, n2).values
            /\ ~OnCommandLine(arg) =>
                   \A name \in DeclaredNames(arg) :
                       /\ Retrieved(parsed_args, name).parsed = (arg.default_values # <<>>)
                       /\ Retrieved(parsed_args, name).values = arg.default_values

C37_Witness ==
    /\ parse_pc = "returned"
    /\ argv = <<PlainValue, ShortVerbose>>
    /\ arg_parser.positional_list_ = <<Source, Target>>
    /\ Len(arg_parser.option_list_) = 3
    /\ Retrieved(parsed_args, LongNum).values = <<<<"5">>>>
    /\ Retrieved(parsed_args, ShortNum).parsed
    /\ ~Retrieved(parsed_args, LongAll).parsed
    /\ Retrieved(parsed_args, <<"d", "s", "t">>).parsed
    /\ Retrieved(parsed_args, <<"s", "r", "c">>).values = <<PlainValue>>

\* the flag named at argv[k] takes no value
ZeroValueFlagAt(k) ==
    /\ k <= Len(argv)
    /\ isOptionName(argv[k])
    /\ find(arg_parser, argv[k]) # <<>>
    /\ find(arg_parser, argv[k])[1].min_nvalues = 0
    /\ find(arg_parser, argv[k])[1].max_nvalues = 0

\* every element before the scan index was consumed once, in the role its
\* text allows, and no element from the scan index on was consumed
ConsumedOnceInOrder ==
    \A k \in 1..Len(argv) :
        /\ Len(uses[k]) = IF k < scan_i THEN 1 ELSE 0
        /\ k < scan_i =>
               /\ uses[k][1] = "name" <=> isOptionName(argv[k])
               /\ uses[k][1] = "value" =>
                      k > 1 /\ uses[k - 1][1] \in {"name", "value"}

\* an iteration of the scan moves the index forward, by one for a flag that
\* takes no value, whose name is all it consumes
ScanMovesForward ==
    /\ scan_i' >= scan_i
    /\ (parse_pc = "scan" /\ parse_pc' = "scan" /\ scan_i < argc) => scan_i' > scan_i
    /\ (parse_pc = "scan" /\ parse_pc' = "scan" /\ ZeroValueFlagAt(scan_i)) =>
           /\ scan_i' = scan_i + 1
           /\ uses'[scan_i] = <<"name">>
           /\ \A k \in (scan_i + 1)..Len(argv) : uses'[k] = <<>>

ParseEnded == parse_pc \in {"returned", "raised"}

\* C38: parse consumes each element of argv[1..] once and in order, as an
\* option name, as a value of the option just named, or as a positional
\* value; a flag that takes no value consumes only its own name and the
\* element after it is processed next; the scan index never moves backwards
\* from one iteration to the next; parse ends, returning or raising, for
\* every argv.
C38_ScanConsumesOnceAndEnds ==
    /\ []ConsumedOnceInOrder
    /\ [][ScanMovesForward]_vars
    /\ [](parse_pc = "returned" /\ ~HelpGiven => scan_i = argc)
    /\ <>ParseEnded

C38_Witness ==
    /\ parse_pc = "returned"
    /\ argv = <<ShortVerbose, PlainValue, LongAll>>
    /\ arg_parser.positional_list_ = <<Source>>
    /\ uses = <<<<"name">>, <<"positional">>, <<"name">>>>
    /\ scan_i = 4
    /\ Retrieved(parsed_args, LongAll).values = <<>>
    /\ Retrieved(parsed_args, ShortVerbose).parsed

(***************************************************************************)
(* The end of the spin: RotationManager::step over the calls main makes,   *)
(* and the shutdown of the render thread.                                  *)
(***************************************************************************)
\* the steps of the logic thread (the loop of main and what follows it)
LogicNext ==
    \/ RotationStep \/ SetBuffers \/ ClearFrameBuffer \/ RouletteRender \/ Swap
    \/ SetBufferLock \/ SetBufferStore \/ LogicWait \/ LogicRate \/ Stop
    \/ JoinRenderThread

\* the steps of the render thread
RenderNext ==
    \/ RenderCheck \/ RenderLock \/ RenderCopy \/ RenderUnlock \/ RenderPrint
    \/ RenderMetrics

\* both threads keep running; a thread blocked in buffer_mutex.lock() gets
\* the mutex: the render thread releases it in every frame and then prints
\* and waits for the next frame
SpecRouletteFair ==
    /\ SpecRoulette
    /\ WF_vars(LogicNext)
    /\ WF_vars(RenderNext)
    /\ SF_vars(SetBufferLock)

\* step() has returned true
LoopLeft == logic_pc \in {"stop", "join", "done"}

\* the calls of step() so far: current_step of them returned false
RotationCounts ==
    /\ current_step <= total_steps - 1
    /\ remaining_angle.m >= 0
    /\ remaining_angle.m = 0 <=> current_step = total_steps - 1
    /\ LoopLeft => current_step = total_steps - 1
    /\ (logic_pc = "step" /\ remaining_angle.m > 0) =>
           remaining_steps(total_steps, current_step) >= 2

ShutDown == logic_pc = "done" /\ render_pc = "done" /\ ~running

\* C39: for steps >= 1 and a positive initial remaining angle step() returns
\* false exactly `steps` times and then true: the remaining angle is positive
\* until the call that divides by 2 (two steps remain), which makes it zero,
\* and the divisor is never below 2; so the loop of main ends, and then the
\* render thread is stopped and joined.
C39_RotationEndsAfterSteps == []RotationCounts /\ <>[]ShutDown

C39_Witness ==
    /\ ShutDown
    /\ total_steps = 4
    /\ current_step = 3
    /\ remaining_angle = FloatZero
    /\ show_metrics

(***************************************************************************)
(* What the two threads share: Renderer::framebuffer, the frame buffers,   *)
(* `running`, and, with --show-metrics, logic_timer.actual_rate.           *)
(***************************************************************************)
\* the render thread is reading logic_timer.actual_rate (getActualRate())
ReadingRate == render_pc = "metrics"

\* the logic thread is writing logic_timer.actual_rate (waitNext())
WritingRate == logic_pc = "rate"

\* C40: every variable one thread writes while the other may read it is
\* accessed under Renderer::buffer_mutex (`running` is atomic): the copy out
\* of *framebuffer and the store into framebuffer are made with the mutex
\* held, and, when show_metrics is on and the render thread reads the measured
\* rate of the logic thread's timer, so are that read and the logic thread's
\* write of it.
C40_SharedAccessUnderMutex ==
    /\ Copying => buffer_mutex = "render"
    /\ logic_pc = "store" => buffer_mutex = "logic"
    /\ (show_metrics /\ ReadingRate) => buffer_mutex = "render"
    /\ (show_metrics /\ WritingRate) => buffer_mutex = "logic"

====
